---- MODULE Spec2Model ----
(***************************************************************************)
(* Verification model of the blazegraph-io document pipeline:              *)
(*   graphs/builder.rs   GraphBuilder (tree construction)                  *)
(*   graphs/graph.rs     breadcrumbs, sorted output                        *)
(*   rules/*.rs          rule passes                                       *)
(*   processor.rs        pipeline driver                                   *)
(***************************************************************************)
EXTENDS Integers, Sequences, FiniteSets, TLC

\* ------------------------------------------------------------------------
\* Bounds of the model
\* ------------------------------------------------------------------------
MaxElems == 3
MaxLevel == 3

\* ------------------------------------------------------------------------
\* Encodings
\* ------------------------------------------------------------------------
\* Option::None for ids and text_order
None == -1
\* Option<T> of a structured value: the empty sequence, or << value >>
Nothing == <<>>
Some(v) == << v >>
\* the '.' separator of a hierarchical path; a path is a sequence of
\* decimal numbers (>= 1) and separators
Dot == 0
\* the blank character of a text; texts are sequences of characters
SP == " "

ElementTypes == {"Section", "Paragraph", "List", "ListItem"}

Min(a, b) == IF a <= b THEN a ELSE b
Max(a, b) == IF a >= b THEN a ELSE b
Last(s) == s[Len(s)]

\* str::trim: strip leading and trailing blanks
RECURSIVE TrimStart(_)
TrimStart(t) ==
  IF t # <<>> /\ Head(t) = SP THEN TrimStart(Tail(t)) ELSE t

RECURSIVE TrimEnd(_)
TrimEnd(t) ==
  IF t # <<>> /\ Last(t) = SP THEN TrimEnd(SubSeq(t, 1, Len(t) - 1)) ELSE t

Trim(t) == TrimEnd(TrimStart(t))

\* ------------------------------------------------------------------------
\* State
\* ------------------------------------------------------------------------
VARIABLES
  pc,          \* position of the builder / driver
  nodes,       \* graph.nodes : NodeId -> DocumentNode
  root_node,   \* graph.root_node : [id, children, title]
  node_stack,  \* build_graph's node_stack
  built,       \* the element sequence consumed by build_graph so far
  sorted,      \* result of to_sorted_graph (sequence of nodes)
  elements,    \* the ParsedPdfElement sequence handed from pass to pass
  source,      \* the sequence a rule pass received (kept for comparison)
  config,      \* the ParsingConfig of the run
  text_elements, \* preprocessor_output.text_elements
  engine,      \* RuleEngine : [minimal_parse_override, rule_timings]
  analysis,    \* Option of [document_analysis, font_size_analysis]
  call,        \* the entry point in progress and its arguments
  hierarchy_context, \* the HierarchyContext of a SectionDetection pass
  storage,     \* the DocumentStorage: [kind, files : path -> content]
  request,     \* Option of the request in progress: [pdf_bytes, config, cache_key]
  response,    \* Option of the Result the last request returned
  stage_log,   \* the stages and store writes the request in progress ran
  served,      \* number of requests received
  procs,       \* the processes that share one file of the store
  document_info, \* graph.document_info: [font_size_counts]
  output,      \* what a serializer produced from the graph
  xhtml        \* the pages of the extractor's XHTML document

graphVars == <<nodes, root_node, node_stack, built, sorted>>
ruleVars == <<elements, source, config>>
driverVars == <<text_elements, engine, analysis, call>>
\* the state of the components the builder and the driver do not touch
cacheVars == <<storage, request, response, stage_log, served>>
serialVars == <<document_info, output>>
laterVars == <<hierarchy_context, cacheVars, procs, serialVars, xhtml>>
vars == <<pc, nodes, root_node, node_stack, built, sorted,
          elements, source, config, text_elements, engine, analysis, call,
          laterVars>>

\* the untouched components before they are used
\* DocumentGraph::new: the document analysis with empty tallies
NoDocumentInfo == [ font_size_counts |-> <<>> ]

NoStorage == [ kind |-> "noop", files |-> <<>> ]

LaterIdle ==
  /\ hierarchy_context = <<>>
  /\ storage = NoStorage
  /\ request = Nothing
  /\ response = Nothing
  /\ stage_log = <<>>
  /\ served = 0
  /\ procs = <<>>
  /\ document_info = NoDocumentInfo
  /\ output = Nothing
  /\ xhtml = <<>>

\* ------------------------------------------------------------------------
\* GraphBuilder
\* ------------------------------------------------------------------------
\* id of the Document root (a fresh uuid); the node of the element at
\* index i receives the fresh id i + 1
RootId == 0
NodeIdOf(index) == index + 1

\* variant: the Document node built with DocumentNode::new, which gives
\* every node text_order Some(0)
DocumentNode_ViaNew ==
  [ id |-> RootId, node_type |-> "Document", path |-> <<>>, depth |-> 0,
    breadcrumbs |-> <<>>, text_order |-> 0, text |-> <<"Document">>,
    token_count |-> 0, physical |-> Nothing, parent |-> None,
    children |-> <<>> ]

\* the Document node inserted at builder.rs:49-69
DocumentNode ==
  [ id |-> RootId, node_type |-> "Document", path |-> <<>>, depth |-> 0,
    breadcrumbs |-> <<>>, text_order |-> None, text |-> <<"Document">>,
    token_count |-> 0, physical |-> Nothing, parent |-> None,
    children |-> <<>> ]

\* one ElementGroup per ParsedElement
GroupType(element_type) ==
  IF element_type = "Section" THEN "Section" ELSE "Paragraph"

\* node of one group: type of its element, trimmed text, physical box,
\* token count; depth, parent and path are filled in by build_graph
CreateNodeFromGroup(e, order) ==
  [ id |-> NodeIdOf(order), node_type |-> e.element_type, path |-> <<>>,
    depth |-> 0, breadcrumbs |-> <<>>, text_order |-> order,
    text |-> Trim(e.text), token_count |-> e.token_count,
    physical |-> Some([ page |-> e.page_number,
                        bounding_box |-> e.bounding_box ]),
    parent |-> None, children |-> <<>> ]

\* find_parent: returns the truncated stack and the parent id
FindParent(stack, level) ==
  IF level <= 1
    THEN [ stack |-> SubSeq(stack, 1, Min(1, Len(stack))), parent |-> RootId ]
    ELSE LET st == SubSeq(stack, 1, Min(Len(stack), level))
         IN  [ stack |-> st,
               parent |-> IF st = <<>> THEN RootId ELSE Last(st) ]

\* variant: top-level nodes numbered by their element index
GenerateHierarchicalPath_ByIndex(ns, rn, parent_id, index) ==
  IF parent_id = rn.id
    THEN << index + 1 >>
    ELSE IF parent_id \in DOMAIN ns
      THEN ns[parent_id].path \o << Dot, Len(ns[parent_id].children) + 1 >>
      ELSE << index + 1 >>

\* generate_hierarchical_path
GenerateHierarchicalPath(ns, rn, parent_id, index) ==
  IF parent_id = rn.id
    THEN << Len(rn.children) + 1 >>
    ELSE IF parent_id \in DOMAIN ns
      THEN ns[parent_id].path \o << Dot, Len(ns[parent_id].children) + 1 >>
      ELSE << index + 1 >>

\* the section branch of build_graph: pop entries at the same or a deeper
\* level, then push the section
RECURSIVE PopSameOrDeeper(_, _, _)
PopSameOrDeeper(ns, stack, level) ==
  IF stack # <<>> /\ Last(stack) \in DOMAIN ns
       /\ ns[Last(stack)].depth >= level
    THEN PopSameOrDeeper(ns, SubSeq(stack, 1, Len(stack) - 1), level)
    ELSE stack

\* map with one more key
Insert(f, k, v) == [ x \in DOMAIN f \cup {k} |-> IF x = k THEN v ELSE f[x] ]

\* variant: only the root's children list is updated
AddChild_RootOnly(ns, pid, id) ==
  IF pid = RootId /\ pid \in DOMAIN ns
    THEN [ ns EXCEPT ![pid].children = Append(@, id) ]
    ELSE ns

\* builder.rs:100-109: the node id is appended to the children of its parent
AddChild(ns, pid, id) ==
  IF pid \in DOMAIN ns
    THEN [ ns EXCEPT ![pid].children = Append(@, id) ]
    ELSE ns

\* one iteration of the loop of build_graph over the group at `index`
BuildStep(g, e, index) ==
  LET node   == CreateNodeFromGroup(e, index)
      fp     == FindParent(g.stack, e.hierarchy_level)
      pid    == fp.parent
      final  == [ node EXCEPT !.parent = pid,
                              !.depth = e.hierarchy_level,
                              !.text_order = index,
                              !.path = GenerateHierarchicalPath(
                                         g.nodes, g.root, pid, index) ]
      ns1    == Insert(g.nodes, node.id, final)
      ns2    == AddChild(ns1, pid, node.id)
      rn2    == IF pid = RootId
                  THEN [ g.root EXCEPT !.children = Append(@, node.id) ]
                  ELSE g.root
      st2    == IF GroupType(e.element_type) = "Section"
                  THEN Append(PopSameOrDeeper(ns2, fp.stack,
                                              e.hierarchy_level), node.id)
                  ELSE fp.stack
  IN  [ nodes |-> ns2, root |-> rn2, stack |-> st2 ]

\* ------------------------------------------------------------------------
\* DocumentGraph: breadcrumbs and sorted output
\* ------------------------------------------------------------------------
\* variant: every node adds its text to the trail
NodeCrumbs_AllPush(node, parent_breadcrumbs) ==
  Append(parent_breadcrumbs, node.text)

\* graph.rs:103-111: a Section adds its own text to the trail it inherits
NodeCrumbs(node, parent_breadcrumbs) ==
  IF node.node_type = "Section"
    THEN Append(parent_breadcrumbs, node.text)
    ELSE parent_breadcrumbs

RECURSIVE PropagateBreadcrumbs(_, _, _)
RECURSIVE PropagateChildren(_, _, _)
PropagateBreadcrumbs(ns, node_id, parent_breadcrumbs) ==
  IF node_id \notin DOMAIN ns THEN ns
  ELSE LET node   == ns[node_id]
           crumbs == NodeCrumbs(node, parent_breadcrumbs)
       IN  PropagateChildren(
             [ ns EXCEPT ![node_id].breadcrumbs = crumbs ],
             node.children, crumbs)

PropagateChildren(ns, children, crumbs) ==
  IF children = <<>> THEN ns
  ELSE PropagateChildren(PropagateBreadcrumbs(ns, Head(children), crumbs),
                         Tail(children), crumbs)

\* compute_breadcrumbs: the title known to the graph at the time of the
\* call seeds the trail
ComputeBreadcrumbs(ns, root_id, title) ==
  LET root_breadcrumbs ==
        IF title # Nothing /\ title[1] # <<>> THEN << title[1] >> ELSE <<>>
      ns1 == IF root_id \in DOMAIN ns
               THEN [ ns EXCEPT ![root_id].breadcrumbs = root_breadcrumbs ]
               ELSE ns
      root_children ==
        IF root_id \in DOMAIN ns THEN ns[root_id].children ELSE <<>>
  IN  PropagateChildren(ns1, root_children, root_breadcrumbs)

\* variant: plain comparison of the encoded orders, largest first
OrderLess_Descending(a, b) ==
  a.text_order > b.text_order

\* the comparator of to_sorted_graph: None before Some, then by value
OrderLess(a, b) ==
  \/ a.text_order = None /\ b.text_order # None
  \/ a.text_order # None /\ b.text_order # None /\ a.text_order < b.text_order

\* stable sort of a sequence of nodes with that comparator
RECURSIVE InsertSorted(_, _)
InsertSorted(s, n) ==
  IF s = <<>> THEN << n >>
  ELSE IF OrderLess(n, Last(s))
    THEN Append(InsertSorted(SubSeq(s, 1, Len(s) - 1), n), Last(s))
    ELSE Append(s, n)

RECURSIVE StableSort(_)
StableSort(s) ==
  IF s = <<>> THEN <<>>
  ELSE InsertSorted(StableSort(SubSeq(s, 1, Len(s) - 1)), Last(s))

\* to_sorted_graph over the iteration order `order` of the node map
ToSortedNodes(ns, order) ==
  StableSort([ i \in 1..Len(order) |-> ns[order[i]] ])

\* the possible iteration orders of a hash map with key set S
Orders(S) ==
  { o \in [ 1..Cardinality(S) -> S ] :
      \A i, j \in 1..Cardinality(S) : i # j => o[i] # o[j] }

\* ------------------------------------------------------------------------
\* Specification of the graph builder
\* ------------------------------------------------------------------------
Texts == { <<"a">>, <<"b", SP>> }
Titles == { Nothing, Some(<<>>), Some(<<"T">>) }
UnitBox == [ x |-> 0, y |-> 0, width |-> 1, height |-> 1 ]

\* the parsed elements handed to build_graph
BuildElements ==
  [ element_type : ElementTypes, hierarchy_level : 0..MaxLevel,
    text : Texts, token_count : {1}, page_number : {1},
    bounding_box : {UnitBox} ]

\* no configuration is involved when the builder is driven directly
NoConfig == [ minimal_parse |-> FALSE ]
\* RuleEngine::new
NewRuleEngine == [ minimal_parse_override |-> Nothing, rule_timings |-> <<>> ]
\* no entry point of the processor is in progress
NoCall == [ entry |-> "none", minimal_parse |-> Nothing, rule_index |-> 0 ]

\* the graph under construction after DocumentGraph::new and the insertion
\* of the Document node
NewGraph ==
  [ nodes |-> [ i \in {RootId} |-> DocumentNode ],
    root  |-> [ id |-> RootId, children |-> <<>>, title |-> Nothing ],
    stack |-> << RootId >> ]

\* the loop of build_graph over all groups, from index on
RECURSIVE BuildLoop(_, _, _)
BuildLoop(g, elems, index) ==
  IF index >= Len(elems) THEN g
  ELSE BuildLoop(BuildStep(g, elems[index + 1], index), elems, index + 1)

\* build_graph as a whole: loop, then the breadcrumb pass
BuildGraph(elems) ==
  LET g == BuildLoop(NewGraph, elems, 0)
  IN  [ g EXCEPT !.nodes = ComputeBreadcrumbs(g.nodes, g.root.id,
                                              g.root.title) ]

\* state after DocumentGraph::new and the insertion of the Document node
BuildInit ==
  /\ LaterIdle
  /\ text_elements = <<>>
  /\ engine = NewRuleEngine
  /\ analysis = Nothing
  /\ call = NoCall
  /\ pc = "building"
  /\ nodes = NewGraph.nodes
  /\ root_node = NewGraph.root
  /\ node_stack = NewGraph.stack
  /\ built = <<>>
  /\ sorted = <<>>
  /\ elements = <<>>
  /\ source = <<>>
  /\ config = NoConfig

\* one group of the loop of build_graph
BuildElement ==
  /\ UNCHANGED laterVars
  /\ pc = "building"
  /\ Len(built) < MaxElems
  /\ \E e \in BuildElements :
       LET r == BuildStep([ nodes |-> nodes, root |-> root_node,
                            stack |-> node_stack ], e, Len(built))
       IN  /\ nodes' = r.nodes
           /\ root_node' = r.root
           /\ node_stack' = r.stack
           /\ built' = Append(built, e)
  /\ UNCHANGED <<pc, sorted, ruleVars, driverVars>>

\* end of the loop: breadcrumb pass, build_graph returns
BuildFinish ==
  /\ UNCHANGED laterVars
  /\ pc = "building"
  /\ nodes' = ComputeBreadcrumbs(nodes, root_node.id, root_node.title)
  /\ pc' = "built"
  /\ UNCHANGED <<root_node, node_stack, built, sorted, ruleVars, driverVars>>

\* tail of build_graph_with_metadata: the metadata is attached to the root
AttachMetadata ==
  /\ UNCHANGED laterVars
  /\ pc = "built"
  /\ \E t \in Titles : root_node' = [ root_node EXCEPT !.title = t ]
  /\ pc' = "returned"
  /\ UNCHANGED <<nodes, node_stack, built, sorted, ruleVars, driverVars>>

\* to_sorted_graph on the finished graph
ToSortedGraph ==
  /\ UNCHANGED laterVars
  /\ pc = "built"
  /\ \E o \in Orders(DOMAIN nodes) : sorted' = ToSortedNodes(nodes, o)
  /\ pc' = "sorted"
  /\ UNCHANGED <<nodes, root_node, node_stack, built, ruleVars, driverVars>>

BuildNext == BuildElement \/ BuildFinish \/ AttachMetadata \/ ToSortedGraph

Spec == BuildInit /\ [][BuildNext]_vars

\* ------------------------------------------------------------------------
\* Properties of the graph builder
\* ------------------------------------------------------------------------
Range(s) == { s[i] : i \in DOMAIN s }
NonRoot == DOMAIN nodes \ {RootId}
Finished == pc \in {"built", "returned", "sorted"}
IsPrefix(p, s) == Len(p) <= Len(s) /\ SubSeq(s, 1, Len(p)) = p
\* 1-based position of id in the children of its parent
ChildIndex(id) ==
  CHOOSE i \in DOMAIN nodes[nodes[id].parent].children :
    nodes[nodes[id].parent].children[i] = id
\* proper ancestors of a node along the parent links
RECURSIVE Ancestors(_)
Ancestors(id) ==
  IF nodes[id].parent \in DOMAIN nodes
    THEN {nodes[id].parent} \cup Ancestors(nodes[id].parent)
    ELSE {}

\* C1: after build_graph every node other than the Document root has a
\* parent that is a key of the node map, and the children list of that
\* parent contains the node's id.
C1_ParentLinks ==
  Finished =>
    \A id \in NonRoot :
      /\ nodes[id].parent \in DOMAIN nodes
      /\ id \in Range(nodes[nodes[id].parent].children)

\* C1 witness: a finished graph in which a node hangs below a Section and
\* another one below the root
C1_Witness ==
  /\ pc = "built"
  /\ \E a, b \in NonRoot :
       /\ nodes[a].parent = RootId
       /\ nodes[b].parent = a
       /\ b \in Range(nodes[a].children)

\* C2 (as claimed): after build_graph every non-root node has
\* depth(node) = depth(parent) + 1, the root being at depth 0.
C2_DepthIsParentPlusOne ==
  Finished =>
    /\ nodes[RootId].depth = 0
    /\ \A id \in NonRoot :
         nodes[id].depth = nodes[nodes[id].parent].depth + 1

\* C3: the graph has exactly one node of type Document; it has no parent,
\* no text_order and depth 0, whatever elements were consumed.
C3_SingleDocument ==
  Finished =>
    /\ Cardinality({ id \in DOMAIN nodes :
                       nodes[id].node_type = "Document" }) = 1
    /\ nodes[RootId].node_type = "Document"
    /\ nodes[RootId].parent = None
    /\ nodes[RootId].text_order = None
    /\ nodes[RootId].depth = 0

\* C3 witness: the empty sequence, and a full sequence that contains a
\* Section at level 0
C3_WitnessEmpty == pc = "built" /\ built = <<>>
C3_Witness ==
  /\ pc = "built"
  /\ Len(built) = MaxElems
  /\ \E i \in DOMAIN built :
       built[i].element_type = "Section" /\ built[i].hierarchy_level = 0

\* C4 (as claimed): the path of every non-root node is the path of its
\* parent, a '.', and its 1-based child index; the root's path is empty;
\* paths are unique.
C4_PathFromParentPath ==
  Finished =>
    /\ nodes[RootId].path = <<>>
    /\ \A id \in NonRoot :
         nodes[id].path =
           nodes[nodes[id].parent].path \o << Dot, ChildIndex(id) >>
    /\ \A a, b \in DOMAIN nodes : a # b => nodes[a].path # nodes[b].path

\* C4 (amended): a child of the root has the bare child index as path (no
\* leading '.'); any other node has the path of its parent, a '.', and its
\* 1-based child index; the root's path is empty; paths are unique.
C4_PathAmended ==
  Finished =>
    /\ nodes[RootId].path = <<>>
    /\ \A id \in NonRoot :
         nodes[id].path =
           IF nodes[id].parent = RootId
             THEN << ChildIndex(id) >>
             ELSE nodes[nodes[id].parent].path \o << Dot, ChildIndex(id) >>
    /\ \A a, b \in DOMAIN nodes : a # b => nodes[a].path # nodes[b].path

\* C4 witness: a second child of the root with a child of its own, after an
\* earlier top-level node
C4_Witness ==
  /\ pc = "built"
  /\ \E a, b \in NonRoot :
       /\ nodes[a].path = << 2 >>
       /\ nodes[b].path = << 2, Dot, 1 >>

\* C5: the node built from the element at index i has text_order i, and
\* the sorted output lists the Document node first, then the other nodes
\* in strictly increasing text_order.
C5_TextOrder ==
  /\ Finished =>
       \A i \in DOMAIN built :
         /\ NodeIdOf(i - 1) \in DOMAIN nodes
         /\ nodes[NodeIdOf(i - 1)].text_order = i - 1
         /\ nodes[NodeIdOf(i - 1)].node_type = built[i].element_type
         /\ nodes[NodeIdOf(i - 1)].text = Trim(built[i].text)
  /\ pc = "sorted" =>
       /\ Len(sorted) = Len(built) + 1
       /\ sorted[1].node_type = "Document"
       /\ sorted[1].text_order = None
       /\ \A i \in 2..Len(sorted) : sorted[i].text_order # None
       /\ \A i, j \in 2..Len(sorted) :
            i < j => sorted[i].text_order < sorted[j].text_order
       /\ { sorted[i].id : i \in DOMAIN sorted } = DOMAIN nodes

\* C5 witness: a sorted output of a full element sequence
C5_Witness == pc = "sorted" /\ Len(sorted) = MaxElems + 1

\* C6 (as claimed): the breadcrumbs of a non-root node are those of its
\* parent, followed by the parent's text when the parent is a Section.
C6_CrumbsAddParentText ==
  Finished =>
    \A id \in NonRoot :
      LET p == nodes[nodes[id].parent]
      IN  nodes[id].breadcrumbs =
            IF p.node_type = "Section"
              THEN Append(p.breadcrumbs, p.text)
              ELSE p.breadcrumbs

\* C6 (amended): the breadcrumbs of a non-root node are those of its
\* parent, followed by the node's own text when the node is a Section;
\* hence the breadcrumbs of every descendant of a Section s start with the
\* breadcrumbs of s, which end with the text of s.
C6_CrumbsAmended ==
  Finished =>
    /\ \A id \in NonRoot :
         LET p == nodes[nodes[id].parent]
         IN  nodes[id].breadcrumbs =
               IF nodes[id].node_type = "Section"
                 THEN Append(p.breadcrumbs, nodes[id].text)
                 ELSE p.breadcrumbs
    /\ \A d \in NonRoot : \A s \in Ancestors(d) :
         nodes[s].node_type = "Section" =>
           /\ IsPrefix(nodes[s].breadcrumbs, nodes[d].breadcrumbs)
           /\ nodes[s].breadcrumbs # <<>>
           /\ Last(nodes[s].breadcrumbs) = nodes[s].text

\* C6 witness: a Section below a Section, with a non-Section child
C6_Witness ==
  /\ pc = "built"
  /\ \E a, b, c \in NonRoot :
       /\ nodes[a].node_type = "Section"
       /\ nodes[b].node_type = "Section" /\ nodes[b].parent = a
       /\ nodes[c].node_type # "Section" /\ nodes[c].parent = b
       /\ nodes[c].breadcrumbs = << nodes[a].text, nodes[b].text >>

\* C7 (as claimed): in the graph returned by build_graph_with_metadata the
\* root's breadcrumbs contain the title iff a non-empty title is known, and
\* then the title is the first breadcrumb of every node.
C7_TitleInBreadcrumbs ==
  pc = "returned" =>
    LET known == root_node.title # Nothing /\ root_node.title[1] # <<>>
    IN  /\ known <=>
              /\ root_node.title # Nothing
              /\ root_node.title[1] \in Range(nodes[RootId].breadcrumbs)
        /\ known =>
              \A id \in DOMAIN nodes :
                /\ nodes[id].breadcrumbs # <<>>
                /\ nodes[id].breadcrumbs[1] = root_node.title[1]

\* the stack discipline the builder is specified to follow: entries are
\* (id, depth) pairs, the root at depth 0 at the bottom; an element of level
\* <= 1 truncates the stack to the root, any other pops the entries whose
\* depth is at least its level; the parent is the top (the root when the
\* stack is empty); a Section is pushed
RECURSIVE PopAtLeast(_, _)
PopAtLeast(stack, level) ==
  IF stack # <<>> /\ Last(stack)[2] >= level
    THEN PopAtLeast(SubSeq(stack, 1, Len(stack) - 1), level)
    ELSE stack

RECURSIVE DisciplineParents(_, _, _, _)
DisciplineParents(stack, elems, index, parents) ==
  IF index >= Len(elems) THEN parents
  ELSE LET e == elems[index + 1]
           st == IF e.hierarchy_level <= 1
                   THEN << << RootId, 0 >> >>
                   ELSE PopAtLeast(stack, e.hierarchy_level)
           parent == IF st = <<>> THEN RootId ELSE Last(st)[1]
           pushed == IF GroupType(e.element_type) = "Section"
                       THEN Append(st, << NodeIdOf(index), e.hierarchy_level >>)
                       ELSE st
       IN  DisciplineParents(pushed, elems, index + 1, Append(parents, parent))

\* C25: the parent of every node is the one the stack discipline gives for
\* its element; the stack holds the root at the bottom and Section nodes
\* above it only.
C25_ParentByStackDiscipline ==
  /\ \A i \in DOMAIN built :
       nodes[NodeIdOf(i - 1)].parent
         = DisciplineParents(<< << RootId, 0 >> >>, built, 0, <<>>)[i]
  /\ node_stack # <<>>
  /\ node_stack[1] = RootId
  /\ \A k \in 2..Len(node_stack) : nodes[node_stack[k]].node_type = "Section"

\* ------------------------------------------------------------------------
\* SpatialClusteringRule (rules/spatial_clustering.rs)
\* Lengths are in tenths of a point, so that the default thresholds are
\* whole numbers.
\* ------------------------------------------------------------------------
\* defaults of the generic configuration
MinLineHeight == 80
GapMultiplierNum == 8
GapMultiplierDen == 10
HorizontalTolerance == 100
SectionsMaxSegmentSize == 300
ParagraphsMaxSegmentSize == 8000
\* a small paragraphs.max_segment_size, so that the size limit is reached
TightSegmentSize == 3

\* variant: the merged box takes the larger of the two widths and heights
MergeBoundingBoxes_MaxExtent(bbox1, bbox2) ==
  [ x |-> Min(bbox1.x, bbox2.x), y |-> Min(bbox1.y, bbox2.y),
    width |-> Max(bbox1.width, bbox2.width),
    height |-> Max(bbox1.height, bbox2.height) ]

\* merge_bounding_boxes
MergeBoundingBoxes(bbox1, bbox2) ==
  LET min_x == Min(bbox1.x, bbox2.x)
      min_y == Min(bbox1.y, bbox2.y)
      max_x == Max(bbox1.x + bbox1.width, bbox2.x + bbox2.width)
      max_y == Max(bbox1.y + bbox1.height, bbox2.y + bbox2.height)
  IN  [ x |-> min_x, y |-> min_y,
        width |-> max_x - min_x, height |-> max_y - min_y ]

\* spatial_clustering.rs:104-117: one more segment merged into the first
\* element of its paragraph group (parts records the merged inputs)
MergeSegment(merged, element) ==
  [ merged EXCEPT
      !.text = merged.text \o << SP >> \o element.text,
      !.bounding_box = MergeBoundingBoxes(merged.bounding_box,
                                          element.bounding_box),
      !.token_count = merged.token_count + element.token_count,
      !.parts = merged.parts \cup element.parts ]

\* merge_elements
MergeElements(cluster, element) ==
  [ cluster EXCEPT
      !.text = cluster.text \o << SP >> \o element.text,
      !.bounding_box = MergeBoundingBoxes(cluster.bounding_box,
                                          element.bounding_box),
      !.token_count = cluster.token_count + element.token_count,
      !.parts = cluster.parts \cup element.parts ]

\* stable sort of elements by (page_number, reading_order); with by_page
\* FALSE by reading_order alone (sort_by_key)
KeyLess(a, b, by_page) ==
  IF by_page
    THEN \/ a.page_number < b.page_number
         \/ a.page_number = b.page_number /\ a.reading_order < b.reading_order
    ELSE a.reading_order < b.reading_order

RECURSIVE InsertByKey(_, _, _)
InsertByKey(s, e, by_page) ==
  IF s = <<>> THEN << e >>
  ELSE IF KeyLess(e, Last(s), by_page)
    THEN Append(InsertByKey(SubSeq(s, 1, Len(s) - 1), e, by_page), Last(s))
    ELSE Append(s, e)

RECURSIVE SortByKey(_, _)
SortByKey(s, by_page) ==
  IF s = <<>> THEN <<>>
  ELSE InsertByKey(SortByKey(SubSeq(s, 1, Len(s) - 1), by_page),
                   Last(s), by_page)

\* the elements of s that satisfy the key, in order
RECURSIVE GroupOf(_, _)
GroupOf(s, key) ==
  IF s = <<>> THEN <<>>
  ELSE LET rest == GroupOf(Tail(s), key)
       IN  IF << Head(s).page_number, Head(s).paragraph_number >> = key
             THEN << Head(s) >> \o rest
             ELSE rest

RECURSIVE MergeAll(_, _)
MergeAll(merged, rest) ==
  IF rest = <<>> THEN merged
  ELSE MergeAll(MergeSegment(merged, Head(rest)), Tail(rest))

\* variant: the segments are merged in the order they arrived
MergeGroup_Unsorted(group) ==
  IF Len(group) = 1 THEN group[1]
  ELSE MergeAll(Head(group), Tail(group))

\* spatial_clustering.rs:88-124: one paragraph group becomes one element
MergeGroup(group) ==
  IF Len(group) = 1 THEN group[1]
  ELSE LET g == SortByKey(group, FALSE)
       IN  MergeAll(Head(g), Tail(g))

ParagraphKeys(elems) ==
  { << elems[i].page_number, elems[i].paragraph_number >> : i \in DOMAIN elems }

\* cluster_paragraphs_elements; order is the iteration order of the map of
\* paragraph groups
ClusterParagraphsElements(elems, order) ==
  IF elems = <<>> THEN elems
  ELSE SortByKey([ i \in 1..Len(order) |->
                     MergeGroup(GroupOf(elems, order[i])) ], TRUE)

\* get_clustering_config_for_type
MaxSegmentSizeFor(cfg, element_type) ==
  IF element_type = "Section"
    THEN cfg.sections_max_segment_size
    ELSE cfg.paragraphs_max_segment_size

\* are_spatially_adjacent
AreSpatiallyAdjacent(cluster, element, cfg) ==
  LET cb == cluster.bounding_box
      eb == element.bounding_box
      cluster_bottom == cb.y + cb.height
      element_top    == eb.y
      element_bottom == eb.y + eb.height
      cluster_top    == cb.y
      vertical_gap ==
        IF cluster_bottom <= element_top THEN element_top - cluster_bottom
        ELSE IF element_bottom <= cluster_top
          THEN cluster_top - element_bottom
          ELSE 0
      cluster_right == cb.x + cb.width
      element_right == eb.x + eb.width
  IN  /\ ~ (vertical_gap * cfg.gap_multiplier_den
              > cfg.min_line_height * cfg.gap_multiplier_num)
      /\ Max(cluster_right, element_right) - Min(cb.x, eb.x)
           < cb.width + eb.width + cfg.horizontal_alignment_tolerance

\* can_merge_elements
CanMergeElements(cluster, element, cfg) ==
  /\ cluster.element_type = element.element_type
  /\ cluster.hierarchy_level = element.hierarchy_level
  /\ cluster.page_number = element.page_number
  /\ ~ (Len(cluster.text) + Len(element.text) + 1
          > MaxSegmentSizeFor(cfg, cluster.element_type))
  /\ AreSpatiallyAdjacent(cluster, element, cfg)

\* cluster_adjacent_elements: clustered is the finished clusters, current
\* the open cluster (an Option)
RECURSIVE AdjacentLoop(_, _, _, _)
AdjacentLoop(clustered, current, rest, cfg) ==
  IF rest = <<>> THEN clustered \o current
  ELSE IF current = Nothing
    THEN AdjacentLoop(clustered, Some(Head(rest)), Tail(rest), cfg)
    ELSE IF CanMergeElements(current[1], Head(rest), cfg)
      THEN AdjacentLoop(clustered,
                        Some(MergeElements(current[1], Head(rest))),
                        Tail(rest), cfg)
      ELSE AdjacentLoop(clustered \o current, Some(Head(rest)),
                        Tail(rest), cfg)

ClusterAdjacentElements(elems, cfg) == AdjacentLoop(<<>>, Nothing, elems, cfg)

\* SpatialClusteringRule::apply
SpatialClusteringApply(elems, cfg, order) ==
  IF elems = <<>> THEN elems
  ELSE LET step1 == IF cfg.enable_paragraph_merging
                      THEN ClusterParagraphsElements(elems, order)
                      ELSE elems
       IN  IF cfg.enable_spatial_adjacency
             THEN ClusterAdjacentElements(step1, cfg)
             ELSE step1

\* ------------------------------------------------------------------------
\* Specification of the clustering pass followed by the graph builder
\* ------------------------------------------------------------------------
MaxClusterElems == 3

\* three boxes in reading order: B lies just below A and overlaps it
\* horizontally, C lies far below both
BoxA == [ x |-> 0, y |-> 0, width |-> 200, height |-> 100 ]
BoxB == [ x |-> 100, y |-> 120, width |-> 300, height |-> 100 ]
BoxC == [ x |-> 0, y |-> 500, width |-> 100, height |-> 100 ]
ClusterBoxes == { BoxA, BoxB, BoxC }

\* (page, paragraph) of the extractor: paragraph numbers are global
ClusterKeys == { << 1, 0 >>, << 1, 1 >>, << 2, 2 >> }

\* values of config.spatial_clustering
SpatialClusteringConfigs ==
  [ enable_paragraph_merging : BOOLEAN,
    enable_spatial_adjacency : BOOLEAN,
    min_line_height : {MinLineHeight},
    gap_multiplier_num : {GapMultiplierNum},
    gap_multiplier_den : {GapMultiplierDen},
    horizontal_alignment_tolerance : {HorizontalTolerance},
    sections_max_segment_size : {SectionsMaxSegmentSize},
    paragraphs_max_segment_size : {TightSegmentSize,
                                   ParagraphsMaxSegmentSize} ]

\* the element at position i (0-based) of a base-converted sequence
ClusterElement(i, key, box, tokens) ==
  [ element_type |-> "Paragraph", text |-> << "a" >>, hierarchy_level |-> 1,
    position |-> i, bounding_box |-> box, page_number |-> key[1],
    paragraph_number |-> key[2], reading_order |-> i,
    token_count |-> tokens, parts |-> {i} ]

\* the extractor emits pages in order and, within a page, elements sorted
\* by y then x
InReadingOrder(s) ==
  \A i \in 1..(Len(s) - 1) :
    \/ s[i].page_number < s[i + 1].page_number
    \/ /\ s[i].page_number = s[i + 1].page_number
       /\ \/ s[i].bounding_box.y < s[i + 1].bounding_box.y
          \/ /\ s[i].bounding_box.y = s[i + 1].bounding_box.y
             /\ s[i].bounding_box.x <= s[i + 1].bounding_box.x

ClusterInputs ==
  UNION { { s \in [ 1..n -> [ key : ClusterKeys, box : ClusterBoxes,
                              tokens : {1, 2} ] ] : TRUE }
          : n \in 0..MaxClusterElems }

ToElements(s) ==
  [ i \in 1..Len(s) |-> ClusterElement(i - 1, s[i].key, s[i].box, s[i].tokens) ]

ClusterInit ==
  /\ LaterIdle
  /\ text_elements = <<>>
  /\ engine = NewRuleEngine
  /\ analysis = Nothing
  /\ call = NoCall
  /\ pc = "converted"
  /\ \E s \in ClusterInputs :
       /\ InReadingOrder(ToElements(s))
       /\ elements = ToElements(s)
  /\ source = <<>>
  /\ config = NoConfig
  /\ nodes = NewGraph.nodes
  /\ root_node = NewGraph.root
  /\ node_stack = NewGraph.stack
  /\ built = <<>>
  /\ sorted = <<>>

\* the SpatialClustering pass under some configuration
SpatialClustering ==
  /\ UNCHANGED laterVars
  /\ pc = "converted"
  /\ \E cfg \in SpatialClusteringConfigs :
     \E order \in Orders(ParagraphKeys(elements)) :
       /\ config' = [ minimal_parse |-> FALSE, spatial_clustering |-> cfg ]
       /\ elements' = SpatialClusteringApply(elements, cfg, order)
  /\ source' = elements
  /\ pc' = "parsed"
  /\ UNCHANGED <<graphVars, driverVars>>

\* the rule passes have returned
RulesDone ==
  \/ pc = "parsed"
  \/ pc = "rules" /\ call.rule_index > Len(config.pipeline.rules)

\* build_graph on the sequence the rule passes returned
BuildParsedGraph ==
  /\ UNCHANGED laterVars
  /\ RulesDone
  /\ LET g == BuildGraph(elements)
     IN  /\ nodes' = g.nodes
         /\ root_node' = g.root
         /\ node_stack' = g.stack
  /\ built' = elements
  /\ pc' = "built"
  /\ UNCHANGED <<sorted, ruleVars, driverVars>>

ClusterNext == SpatialClustering \/ BuildParsedGraph

SpecCluster == ClusterInit /\ [][ClusterNext]_vars

\* ------------------------------------------------------------------------
\* Properties of the clustering pass
\* ------------------------------------------------------------------------
RECURSIVE SumTokens(_)
SumTokens(s) == IF s = <<>> THEN 0 ELSE Head(s).token_count + SumTokens(Tail(s))

\* the smallest box that contains every box of the non-empty set S
TightUnion(S) ==
  LET x0 == CHOOSE v \in { b.x : b \in S } : \A b \in S : v <= b.x
      y0 == CHOOSE v \in { b.y : b \in S } : \A b \in S : v <= b.y
      x1 == CHOOSE v \in { b.x + b.width : b \in S } :
              \A b \in S : v >= b.x + b.width
      y1 == CHOOSE v \in { b.y + b.height : b \in S } :
              \A b \in S : v >= b.y + b.height
  IN  [ x |-> x0, y |-> y0, width |-> x1 - x0, height |-> y1 - y0 ]

\* the input elements (by position) merged into element m
Constituents(m) == { i \in DOMAIN source : source[i].position \in m.parts }

RECURSIVE SumOver(_)
SumOver(I) ==
  IF I = {} THEN 0
  ELSE LET i == CHOOSE j \in I : TRUE
       IN  source[i].token_count + SumOver(I \ {i})

\* C8: every element that comes out of the clustering pass, and the node
\* built from it, has as bounding box the tight union of the boxes of the
\* inputs merged into it and as token_count the sum of their token counts;
\* every input is merged into exactly one output, so that the total token
\* count of the sequence is unchanged.
C8_MergedBoxAndTokens ==
  pc \in {"parsed", "built"} =>
    /\ \A k \in DOMAIN elements :
         /\ Constituents(elements[k]) # {}
         /\ elements[k].bounding_box =
              TightUnion({ source[i].bounding_box :
                           i \in Constituents(elements[k]) })
         /\ elements[k].token_count = SumOver(Constituents(elements[k]))
    /\ \A i \in DOMAIN source :
         Cardinality({ k \in DOMAIN elements :
                         i \in Constituents(elements[k]) }) = 1
    /\ SumTokens(elements) = SumTokens(source)
    /\ pc = "built" =>
         \A k \in DOMAIN elements :
           /\ nodes[NodeIdOf(k - 1)].token_count = elements[k].token_count
           /\ nodes[NodeIdOf(k - 1)].physical =
                Some([ page |-> elements[k].page_number,
                       bounding_box |-> elements[k].bounding_box ])

\* C8 witness: three inputs merged into one node by paragraph merging
\* followed by adjacency merging, its box larger than each input box
C8_Witness ==
  /\ pc = "built"
  /\ config.spatial_clustering.enable_paragraph_merging
  /\ config.spatial_clustering.enable_spatial_adjacency
  /\ Len(source) = 3 /\ Len(elements) = 1
  /\ \A i \in DOMAIN source :
       source[i].bounding_box # elements[1].bounding_box
  /\ \E i, j \in DOMAIN source :
       source[i].paragraph_number # source[j].paragraph_number
  /\ nodes[NodeIdOf(0)].token_count >= 4

\* C8 witness: adjacency merging alone merged two inputs
C8_WitnessAdjacent ==
  /\ pc = "parsed"
  /\ ~ config.spatial_clustering.enable_paragraph_merging
  /\ config.spatial_clustering.enable_spatial_adjacency
  /\ \E k \in DOMAIN elements : Cardinality(elements[k].parts) = 2

\* ------------------------------------------------------------------------
\* Font analysis (types.rs DocumentAnalysis, engine.rs analyze_font_sizes)
\* Font sizes are in hundredths of a point.
\* ------------------------------------------------------------------------
DefaultFontSize == 1200
SizeMergeEpsilon == 1

Abs(a) == IF a < 0 THEN 0 - a ELSE a

\* format!("{:.1}", size) read back with parse::<f32>: the size rounded to
\* a tenth of a point (no size of the model lies half-way)
RoundToTenth(size) == ((size + 5) \div 10) * 10

SizeKeys(tes) == { RoundToTenth(tes[i].style_info.font_size) : i \in DOMAIN tes }

SizeKeyCount(tes, key) ==
  Cardinality({ i \in DOMAIN tes :
                  RoundToTenth(tes[i].style_info.font_size) = key })

\* DocumentAnalysis::analyze_text_elements, most_common_font_size:
\* max_by_key over the hash map of size keys returns one of the keys with
\* the highest count, which one depends on the iteration order of the map
MostCommonFontSizes(tes) ==
  IF tes = <<>> THEN { DefaultFontSize }
  ELSE { k \in SizeKeys(tes) :
           \A k2 \in SizeKeys(tes) : SizeKeyCount(tes, k2) <= SizeKeyCount(tes, k) }

UsedClasses(tes) == { tes[i].style_info.class_name : i \in DOMAIN tes }

ClassUsageCount(tes, class_name) ==
  Cardinality({ i \in DOMAIN tes : tes[i].style_info.class_name = class_name })

\* analyze_font_sizes STEP 2: size_to_count_vec, filled in the iteration
\* order of class_usage_counts
RECURSIVE SizeToCountVec(_, _, _, _)
SizeToCountVec(vec, order, tes, style_data) ==
  IF order = <<>> THEN vec
  ELSE IF Head(order) \notin DOMAIN style_data
    THEN SizeToCountVec(vec, Tail(order), tes, style_data)
    ELSE LET size == style_data[Head(order)].font_size
             usage_count == ClassUsageCount(tes, Head(order))
             hits == { k \in DOMAIN vec :
                         Abs(vec[k].size - size) < SizeMergeEpsilon }
         IN  IF hits # {}
               THEN LET k == CHOOSE h \in hits : \A h2 \in hits : h <= h2
                    IN  SizeToCountVec(
                          [ vec EXCEPT ![k].count = @ + usage_count ],
                          Tail(order), tes, style_data)
               ELSE SizeToCountVec(
                      Append(vec, [ size |-> size, count |-> usage_count ]),
                      Tail(order), tes, style_data)

\* Iterator::max_by_key: the last of the entries with the highest count
LastMaxByCount(vec) ==
  vec[CHOOSE k \in DOMAIN vec :
        /\ \A j \in DOMAIN vec : vec[j].count <= vec[k].count
        /\ \A j \in DOMAIN vec : j > k => vec[j].count < vec[k].count]

\* FontSizeAnalysis::default
DefaultFontSizeAnalysis ==
  [ most_common_size |-> DefaultFontSize, body_text_size |-> DefaultFontSize,
    potential_header_sizes |-> {} ]

\* analyze_font_sizes; order is the iteration order of class_usage_counts.
\* potential_header_sizes is kept as the set of its entries.
AnalyzeFontSizes(tes, style_data, order) ==
  LET vec == SizeToCountVec(<<>>, order, tes, style_data)
  IN  IF vec = <<>> THEN DefaultFontSizeAnalysis
      ELSE LET most_common == LastMaxByCount(vec)
               max_frequency == most_common.count
           IN  [ most_common_size |-> most_common.size,
                 body_text_size |-> most_common.size,
                 potential_header_sizes |->
                   { vec[k].size : k \in
                       { j \in DOMAIN vec :
                           /\ vec[j].size > most_common.size
                           /\ vec[j].count < max_frequency \div 2 } } ]

\* ------------------------------------------------------------------------
\* rules/section_detection.rs
\* ------------------------------------------------------------------------
\* char::to_lowercase on the letters the texts of the model use
LowerOf(c) ==
  CASE c = "A" -> "a" [] c = "B" -> "b" [] c = "H" -> "h" [] c = "P" -> "p"
    [] OTHER -> c

ToLowercase(t) == [ i \in DOMAIN t |-> LowerOf(t[i]) ]

\* str::contains
Contains(t, pattern) ==
  \E i \in 0..(Len(t) - Len(pattern)) : SubSeq(t, i + 1, i + Len(pattern)) = pattern

\* font_weight.to_lowercase().contains("bold")
IsBold(style) == Contains(ToLowercase(style.font_weight), << "b", "o", "l", "d" >>)

\* HierarchyContext::new; panicked records an out-of-range slot access
NewHierarchyContext ==
  [ current_level |-> 1, previous_section_font_size |-> None,
    level_font_sizes |-> <<>>, panicked |-> FALSE ]

\* get_content_level
GetContentLevel(ctx) == ctx.current_level + 1

\* self.level_font_sizes[self.current_level as usize - 1] = font_size
SetLevelFontSize(ctx, font_size) ==
  IF ctx.current_level >= 1 /\ ctx.current_level <= Len(ctx.level_font_sizes)
    THEN [ ctx EXCEPT !.level_font_sizes[ctx.current_level] = font_size ]
    ELSE [ ctx EXCEPT !.panicked = TRUE ]

\* while self.level_font_sizes.len() < n { push(0.0) }
RECURSIVE PadLevels(_, _)
PadLevels(sizes, n) ==
  IF Len(sizes) < n THEN PadLevels(Append(sizes, 0), n) ELSE sizes

\* variant: the search takes the deepest slot of each kind
FindAppropriateLevelForFontSize_Deepest(ctx, font_size, sh) ==
  LET sizes == ctx.level_font_sizes
      similar == { k \in DOMAIN sizes :
                     Abs(font_size - sizes[k]) < sh.font_size_tolerance }
      smaller == { k \in DOMAIN sizes : font_size > sizes[k] }
  IN  IF similar # {}
        THEN CHOOSE k \in similar : \A k2 \in similar : k2 <= k
        ELSE IF smaller # {}
          THEN CHOOSE k \in smaller : \A k2 \in smaller : k2 <= k
          ELSE 1

\* find_appropriate_level_for_font_size
FindAppropriateLevelForFontSize(ctx, font_size, sh) ==
  LET sizes == ctx.level_font_sizes
      similar == { k \in DOMAIN sizes :
                     Abs(font_size - sizes[k]) < sh.font_size_tolerance }
      smaller == { k \in DOMAIN sizes : font_size > sizes[k] }
  IN  IF similar # {}
        THEN CHOOSE k \in similar : \A k2 \in similar : k <= k2
        ELSE IF smaller # {}
          THEN CHOOSE k \in smaller : \A k2 \in smaller : k <= k2
          ELSE 1

\* the max_depth test of the deeper branch, without the test
ExceedsMaxDepth_Never(sh, proposed_level) == FALSE

\* config.enforce_max_depth && proposed_level > config.max_depth
ExceedsMaxDepth(sh, proposed_level) ==
  sh.enforce_max_depth /\ proposed_level > sh.max_depth

\* update_for_section: the context afterwards and the level returned
UpdateForSection(ctx, font_size, sh) ==
  LET prev == ctx.previous_section_font_size
      proposed_level == ctx.current_level + 1
      stepped ==
        IF prev = None
          THEN [ ctx EXCEPT !.current_level = sh.starting_section_level,
                            !.level_font_sizes = << font_size >> ]
        ELSE IF font_size < prev
          THEN IF ExceedsMaxDepth(sh, proposed_level)
                 THEN SetLevelFontSize(ctx, font_size)
                 ELSE SetLevelFontSize(
                        [ ctx EXCEPT !.current_level = proposed_level,
                                     !.level_font_sizes =
                                        PadLevels(@, proposed_level) ],
                        font_size)
        ELSE IF Abs(font_size - prev) < sh.font_size_tolerance
          THEN SetLevelFontSize(ctx, font_size)
          ELSE LET level == FindAppropriateLevelForFontSize(ctx, font_size, sh)
               IN  SetLevelFontSize(
                     [ ctx EXCEPT !.current_level = level,
                                  !.level_font_sizes = PadLevels(@, level) ],
                     font_size)
  IN  [ ctx |-> [ stepped EXCEPT !.previous_section_font_size = font_size ],
        level |-> stepped.current_level ]

\* classify_individual_element_contextual: the new type and level of
\* current_element and the context afterwards; an is the pair of analyses
ClassifyIndividualElementContextual(element, an, current_element, ctx, cfg) ==
  LET sh == cfg.section_and_hierarchy
      font_size == element.style_info.font_size
      potential == an.font_size_analysis.potential_header_sizes
      is_bold == IsBold(element.style_info)
      bold_logic ==
        IF sh.bold_size_strict
          THEN /\ sh.use_bold_indicator
               /\ is_bold
               /\ font_size > an.document_analysis.most_common_font_size
          ELSE sh.use_bold_indicator /\ is_bold
      is_header ==
        IF font_size < sh.min_header_size THEN FALSE
        ELSE \/ font_size > an.font_size_analysis.body_text_size
             \/ font_size \in potential
             \/ bold_logic
      matches_section_pattern ==
        \E pattern \in cfg.section_patterns :
          Contains(ToLowercase(element.text), pattern)
      text_length == Len(Trim(element.text))
      is_meaningful_header ==
        IF is_header \/ matches_section_pattern
          THEN /\ text_length >= 3
               /\ \/ text_length >= 8
                  \/ is_bold
                  \/ font_size \in potential
          ELSE FALSE
  IN  IF is_meaningful_header
        THEN LET u == UpdateForSection(ctx, font_size, sh)
             IN  [ element_type |-> "Section", hierarchy_level |-> u.level,
                   ctx |-> u.ctx ]
        ELSE [ element_type |-> current_element.element_type,
               hierarchy_level |-> GetContentLevel(ctx), ctx |-> ctx ]

\* section_detection.rs:42-62: the elements the pass makes up from the
\* text elements when it receives none
InitialElements(tes) ==
  [ i \in 1..Len(tes) |->
      [ element_type |-> "Paragraph", text |-> tes[i].text,
        hierarchy_level |-> 3, position |-> i - 1,
        style_info |-> tes[i].style_info,
        bounding_box |-> tes[i].bounding_box,
        page_number |-> tes[i].page_number,
        paragraph_number |-> tes[i].paragraph_number,
        reading_order |-> tes[i].reading_order,
        token_count |-> tes[i].token_count, parts |-> {i - 1} ] ]

\* the loop of SectionAndHierarchyDetectionRule::apply
RECURSIVE SectionLoop(_, _, _, _, _, _)
SectionLoop(processed, rest, ctx, tes, an, cfg) ==
  IF rest = <<>> THEN [ elements |-> processed, panicked |-> ctx.panicked ]
  ELSE LET element == Head(rest)
       IN  IF element.position + 1 \in DOMAIN tes
             THEN LET c == ClassifyIndividualElementContextual(
                             tes[element.position + 1], an, element, ctx, cfg)
                  IN  SectionLoop(
                        Append(processed,
                               [ element EXCEPT
                                   !.element_type = c.element_type,
                                   !.hierarchy_level = c.hierarchy_level ]),
                        Tail(rest), c.ctx, tes, an, cfg)
             ELSE SectionLoop(
                    Append(processed,
                           [ element EXCEPT
                               !.hierarchy_level = GetContentLevel(ctx) ]),
                    Tail(rest), ctx, tes, an, cfg)

\* SectionAndHierarchyDetectionRule::apply
SectionDetectionApply(elems, tes, an, cfg) ==
  SectionLoop(<<>>, IF elems = <<>> THEN InitialElements(tes) ELSE elems,
              NewHierarchyContext, tes, an, cfg)

\* ------------------------------------------------------------------------
\* rules/engine.rs and processor.rs: the pipeline driver
\* ------------------------------------------------------------------------
\* engine.rs:487-499: the Paragraph element of the text element at position
ParagraphElement(text_element, position) ==
  [ element_type |-> "Paragraph", text |-> Trim(text_element.text),
    hierarchy_level |-> 1, position |-> position,
    style_info |-> text_element.style_info,
    bounding_box |-> text_element.bounding_box,
    page_number |-> text_element.page_number,
    paragraph_number |-> text_element.paragraph_number,
    reading_order |-> text_element.reading_order,
    token_count |-> text_element.token_count, parts |-> {position} ]

\* the loop of convert_text_elements_to_parsed, from position on
RECURSIVE ConvertLoop(_, _, _)
ConvertLoop(elems, tes, position) ==
  IF position >= Len(tes) THEN elems
  ELSE IF Trim(tes[position + 1].text) = <<>>
    THEN ConvertLoop(elems, tes, position + 1)
    ELSE ConvertLoop(Append(elems, ParagraphElement(tes[position + 1], position)),
                     tes, position + 1)

\* variant: a conversion that does not skip blank text elements
ConvertTextElementsToParsed_KeepBlank(tes) ==
  [ i \in 1..Len(tes) |-> ParagraphElement(tes[i], i - 1) ]

\* convert_text_elements_to_parsed (the base conversion)
ConvertTextElementsToParsed(tes) == ConvertLoop(<<>>, tes, 0)

\* Option::unwrap_or
UnwrapOr(opt, default) == IF opt = Nothing THEN default ELSE opt[1]

StubbedRules == { "PatternBasedSectionDetection", "ListDetection", "SizeEnforcer" }
KnownRules == { "SpatialClustering", "Validation", "SectionDetection" } \cup StubbedRules

\* variant: the loop drops what the pass returned
RulePassReturns_Dropped(result, rule_name) ==
  /\ elements' = <<>>
  /\ source' = elements
  /\ engine' = [ engine EXCEPT !.rule_timings = Append(@, rule_name) ]
  /\ call' = [ call EXCEPT !.rule_index = @ + 1 ]
  /\ pc' = "rules"
  /\ UNCHANGED <<graphVars, config, text_elements, analysis>>

\* apply_rule_by_name: the bookkeeping common to every pass that ran; the
\* pass leaves the sequence result
RulePassReturns(result, rule_name) ==
  /\ elements' = result
  /\ source' = elements
  /\ engine' = [ engine EXCEPT !.rule_timings = Append(@, rule_name) ]
  /\ call' = [ call EXCEPT !.rule_index = @ + 1 ]
  /\ pc' = "rules"
  /\ UNCHANGED <<graphVars, config, text_elements, analysis>>

\* the loop over config.pipeline.rules stands at an entry
AtRule ==
  /\ pc = "rules"
  /\ call.rule_index <= Len(config.pipeline.rules)

CurrentRule == config.pipeline.rules[call.rule_index]

\* the analyses the processor computes before it calls the rule engine
Analyses(tes, style_data) ==
  { [ document_analysis |-> [ most_common_font_size |-> m ],
      font_size_analysis |-> AnalyzeFontSizes(tes, style_data, order) ] :
      m \in MostCommonFontSizes(tes), order \in Orders(UsedClasses(tes)) }

\* ------------------------------------------------------------------------
\* Specification of the pipeline driver
\* ------------------------------------------------------------------------
MaxTextElems == 3

MinHeaderSize == 850
MaxDepth == 5
FontSizeTolerance == 10
StartingSectionLevel == 1

\* SectionAndHierarchyConfig::default
DefaultSectionAndHierarchy ==
  [ min_header_size |-> MinHeaderSize, use_bold_indicator |-> TRUE,
    bold_size_strict |-> TRUE, max_depth |-> MaxDepth,
    font_size_tolerance |-> FontSizeTolerance, enforce_max_depth |-> TRUE,
    starting_section_level |-> StartingSectionLevel ]

\* spatial_clustering of create_default_generic_config
DefaultSpatialClustering ==
  [ enable_paragraph_merging |-> TRUE, enable_spatial_adjacency |-> FALSE,
    min_line_height |-> MinLineHeight,
    gap_multiplier_num |-> GapMultiplierNum,
    gap_multiplier_den |-> GapMultiplierDen,
    horizontal_alignment_tolerance |-> HorizontalTolerance,
    sections_max_segment_size |-> SectionsMaxSegmentSize,
    paragraphs_max_segment_size |-> ParagraphsMaxSegmentSize ]

\* two of the section_patterns of create_default_generic_config
SectionPatterns ==
  { << "p", "a", "r", "t" >>, << "c", "h", "a", "p", "t", "e", "r" >> }

RuleConfig(name, enabled) == [ name |-> name, enabled |-> enabled ]

\* PipelineConfig::default
DefaultPipeline ==
  << RuleConfig("SpatialClustering+StyleAnalysis", TRUE),
     RuleConfig("Validation", TRUE) >>

Pipelines ==
  { <<>>,
    DefaultPipeline,
    << RuleConfig("SpatialClustering", TRUE),
       RuleConfig("SectionDetection", TRUE) >>,
    << RuleConfig("SectionDetection", TRUE),
       RuleConfig("SpatialClustering", TRUE) >>,
    << RuleConfig("SectionDetection", FALSE),
       RuleConfig("ListDetection", TRUE),
       RuleConfig("SizeEnforcer", TRUE) >>,
    << RuleConfig("PatternBasedSectionDetection", TRUE),
       RuleConfig("SectionDetection", TRUE),
       RuleConfig("Validation", FALSE) >> }

PipelineConfigs ==
  [ minimal_parse : BOOLEAN,
    pipeline : [ rules : Pipelines ],
    section_and_hierarchy : { DefaultSectionAndHierarchy },
    spatial_clustering : { DefaultSpatialClustering },
    section_patterns : { SectionPatterns } ]

\* the font classes of the style table of the document
FontClass(class_name, font_size, font_weight) ==
  [ class_name |-> class_name, font_size |-> font_size,
    font_weight |-> font_weight ]

StyleData ==
  [ c \in {"f1", "f2", "f3"} |->
      CASE c = "f1" -> FontClass("f1", 1200, << "n", "o", "r", "m", "a", "l" >>)
        [] c = "f2" -> FontClass("f2", 1600, << "B", "o", "l", "d" >>)
        [] c = "f3" -> FontClass("f3", 800, << "b", "o", "l", "d" >>) ]

BlankText == << SP, SP >>
BodyText == << "b", "o", "d", "y", SP >>
TitleText == << "H", "e", "a", "d", "i", "n", "g", "s" >>
ShortText == << "A", "b" >>
PartText == << "P", "a", "r", "t", SP, "o", "n", "e" >>

\* the spans of the extracted document: text and font class
TextSamples ==
  { << BlankText, "f1" >>, << BodyText, "f1" >>, << TitleText, "f2" >>,
    << ShortText, "f2" >>, << PartText, "f1" >>, << TitleText, "f3" >> }

\* the text element at index i (0-based): spans follow one another down one
\* page, two spans to a paragraph
TextElement(i, sample) ==
  [ text |-> sample[1], style_info |-> StyleData[sample[2]],
    bounding_box |-> [ x |-> 0, y |-> 120 * i, width |-> 1000, height |-> 100 ],
    page_number |-> 1, paragraph_number |-> i \div 2, reading_order |-> i,
    token_count |-> 1 ]

TextInputs ==
  UNION { { [ i \in 1..n |-> TextElement(i - 1, s[i]) ] :
              s \in [ 1..n -> TextSamples ] } : n \in 0..MaxTextElems }

\* the entry points and their minimal_parse argument
Calls ==
  { [ entry |-> e, minimal_parse |-> Nothing, rule_index |-> 0 ] :
      e \in { "process_with_config_flow", "apply_rules" } }
  \cup
  { [ entry |-> "process_document_with_options", minimal_parse |-> m,
      rule_index |-> 0 ] : m \in { Nothing, Some(TRUE), Some(FALSE) } }

PipelineInit ==
  /\ LaterIdle
  /\ pc = "start"
  /\ text_elements \in TextInputs
  /\ config \in PipelineConfigs
  /\ call \in Calls
  /\ engine = NewRuleEngine
  /\ analysis = Nothing
  /\ elements = <<>>
  /\ source = <<>>
  /\ nodes = NewGraph.nodes
  /\ root_node = NewGraph.root
  /\ node_stack = NewGraph.stack
  /\ built = <<>>
  /\ sorted = <<>>

\* RuleEngine::set_minimal_parse_override, by a caller that drives the
\* rule engine itself
SetMinimalParseOverride ==
  /\ UNCHANGED laterVars
  /\ pc = "start"
  /\ call.entry = "apply_rules"
  /\ \E minimal_parse \in BOOLEAN :
       engine' = [ engine EXCEPT !.minimal_parse_override = Some(minimal_parse) ]
  /\ UNCHANGED <<pc, graphVars, ruleVars, text_elements, analysis, call>>

\* the caller computes the analyses and calls RuleEngine::apply_rules
CallApplyRules ==
  /\ UNCHANGED laterVars
  /\ pc = "start"
  /\ call.entry = "apply_rules"
  /\ \E a \in Analyses(text_elements, StyleData) : analysis' = Some(a)
  /\ pc' = "apply_rules"
  /\ UNCHANGED <<graphVars, ruleVars, text_elements, engine, call>>

\* process_with_config_flow, Stage 3 up to the call of the rule engine
ProcessWithConfigFlow ==
  /\ UNCHANGED laterVars
  /\ pc = "start"
  /\ call.entry = "process_with_config_flow"
  /\ IF config.minimal_parse
       THEN /\ elements' = ConvertTextElementsToParsed(text_elements)
            /\ pc' = "parsed"
            /\ UNCHANGED analysis
       ELSE /\ \E a \in Analyses(text_elements, StyleData) : analysis' = Some(a)
            /\ pc' = "apply_rules_with_config"
            /\ UNCHANGED elements
  /\ UNCHANGED <<graphVars, source, config, text_elements, engine, call>>

\* process_document_with_options, up to the call of the rule engine
ProcessDocumentWithOptions ==
  /\ UNCHANGED laterVars
  /\ pc = "start"
  /\ call.entry = "process_document_with_options"
  /\ IF UnwrapOr(call.minimal_parse, FALSE)
       THEN /\ elements' = ConvertTextElementsToParsed(text_elements)
            /\ pc' = "parsed"
            /\ UNCHANGED analysis
       ELSE /\ \E a \in Analyses(text_elements, StyleData) : analysis' = Some(a)
            /\ pc' = "apply_rules"
            /\ UNCHANGED elements
  /\ UNCHANGED <<graphVars, source, config, text_elements, engine, call>>

\* RuleEngine::apply_rules up to its loop over the pipeline
ApplyRules ==
  /\ UNCHANGED laterVars
  /\ pc = "apply_rules"
  /\ elements' = ConvertTextElementsToParsed(text_elements)
  /\ IF UnwrapOr(engine.minimal_parse_override, config.minimal_parse)
       THEN /\ pc' = "parsed"
            /\ UNCHANGED <<engine, call>>
       ELSE /\ engine' = [ engine EXCEPT !.rule_timings = <<>> ]
            /\ call' = [ call EXCEPT !.rule_index = 1 ]
            /\ pc' = "rules"
  /\ UNCHANGED <<graphVars, source, config, text_elements, analysis>>

\* RuleEngine::apply_rules_with_config up to its loop over the pipeline
ApplyRulesWithConfig ==
  /\ UNCHANGED laterVars
  /\ pc = "apply_rules_with_config"
  /\ elements' = ConvertTextElementsToParsed(text_elements)
  /\ call' = [ call EXCEPT !.rule_index = 1 ]
  /\ pc' = "rules"
  /\ UNCHANGED <<graphVars, source, config, text_elements, engine, analysis>>

\* the loop skips a disabled entry
SkipDisabledRule ==
  /\ UNCHANGED laterVars
  /\ AtRule
  /\ ~ CurrentRule.enabled
  /\ call' = [ call EXCEPT !.rule_index = @ + 1 ]
  /\ UNCHANGED <<pc, graphVars, ruleVars, text_elements, engine, analysis>>

ApplySpatialClustering ==
  /\ UNCHANGED laterVars
  /\ AtRule
  /\ CurrentRule.enabled
  /\ CurrentRule.name = "SpatialClustering"
  /\ \E order \in Orders(ParagraphKeys(elements)) :
       RulePassReturns(
         SpatialClusteringApply(elements, config.spatial_clustering, order),
         CurrentRule.name)

ApplyValidation ==
  /\ UNCHANGED laterVars
  /\ AtRule
  /\ CurrentRule.enabled
  /\ CurrentRule.name = "Validation"
  /\ RulePassReturns(elements, CurrentRule.name)

\* a slot access out of range aborts the run
ApplySectionDetection ==
  /\ UNCHANGED laterVars
  /\ AtRule
  /\ CurrentRule.enabled
  /\ CurrentRule.name = "SectionDetection"
  /\ LET r == SectionDetectionApply(elements, text_elements, analysis[1], config)
     IN  IF r.panicked
           THEN /\ pc' = "failed"
                /\ UNCHANGED <<graphVars, ruleVars, driverVars>>
           ELSE RulePassReturns(r.elements, CurrentRule.name)

\* the passes that hand the elements through unchanged
ApplyStubbedRule ==
  /\ UNCHANGED laterVars
  /\ AtRule
  /\ CurrentRule.enabled
  /\ CurrentRule.name \in StubbedRules
  /\ RulePassReturns(elements, CurrentRule.name)

\* a name that matches no pass
ApplyUnknownRule ==
  /\ UNCHANGED laterVars
  /\ AtRule
  /\ CurrentRule.enabled
  /\ CurrentRule.name \notin KnownRules
  /\ RulePassReturns(elements, CurrentRule.name)

PipelineNext ==
  \/ SetMinimalParseOverride
  \/ CallApplyRules
  \/ ProcessWithConfigFlow
  \/ ProcessDocumentWithOptions
  \/ ApplyRules
  \/ ApplyRulesWithConfig
  \/ SkipDisabledRule
  \/ ApplySpatialClustering
  \/ ApplyValidation
  \/ ApplySectionDetection
  \/ ApplyStubbedRule
  \/ ApplyUnknownRule
  \/ BuildParsedGraph

SpecPipeline == PipelineInit /\ [][PipelineNext]_vars

\* ------------------------------------------------------------------------
\* Properties of the pipeline driver
\* ------------------------------------------------------------------------
\* the value of minimal_parse in force: an override, when given, takes
\* precedence over the configuration
EffectiveMinimalParse ==
  CASE call.entry = "process_with_config_flow" -> config.minimal_parse
    [] call.entry = "process_document_with_options" ->
         UnwrapOr(call.minimal_parse, config.minimal_parse)
    [] call.entry = "apply_rules" ->
         UnwrapOr(engine.minimal_parse_override, config.minimal_parse)
    [] OTHER -> FALSE

\* the text elements with a non-blank text, in input order
NonBlank(tes) == SelectSeq(tes, LAMBDA te : Trim(te.text) # <<>>)

\* C9: once the processing runs with minimal_parse in force, no rule pass
\* runs (the rule loop is never entered, no pass is recorded, no pass has
\* received a sequence), and the graph built has exactly one node per
\* non-blank text element, in input order, each a Paragraph at depth 1 whose
\* parent is the Document root.
C9_MinimalParse ==
  (pc # "start" /\ EffectiveMinimalParse) =>
    /\ pc \in { "apply_rules", "parsed", "built" }
    /\ engine.rule_timings = <<>>
    /\ source = <<>>
    /\ pc = "built" =>
         LET kept == NonBlank(text_elements)
         IN  /\ DOMAIN nodes = {RootId} \cup { NodeIdOf(k - 1) : k \in DOMAIN kept }
             /\ nodes[RootId].children = [ k \in DOMAIN kept |-> NodeIdOf(k - 1) ]
             /\ \A k \in DOMAIN kept :
                  LET n == nodes[NodeIdOf(k - 1)]
                  IN  /\ n.node_type = "Paragraph"
                      /\ n.depth = 1
                      /\ n.parent = RootId
                      /\ n.children = <<>>
                      /\ n.text_order = k - 1
                      /\ n.text = Trim(kept[k].text)

\* C9 witness: minimal_parse set in the configuration, a pipeline with
\* SectionDetection enabled, and a document with a blank span and a heading
\* that the pass would promote
C9_Witness ==
  /\ pc = "built"
  /\ call.entry = "process_with_config_flow"
  /\ config.minimal_parse
  /\ \E k \in DOMAIN config.pipeline.rules :
       config.pipeline.rules[k] = RuleConfig("SectionDetection", TRUE)
  /\ Len(text_elements) = 3
  /\ text_elements[1].text = TitleText /\ text_elements[1].style_info.class_name = "f2"
  /\ text_elements[2].text = BlankText
  /\ text_elements[3].text = BodyText
  /\ Cardinality(DOMAIN nodes) = 3

\* C9 witness: minimal_parse set by the override of the rule engine while
\* the configuration says false
C9_WitnessOverride ==
  /\ pc = "built"
  /\ call.entry = "apply_rules"
  /\ engine.minimal_parse_override = Some(TRUE)
  /\ ~ config.minimal_parse
  /\ config.pipeline.rules # <<>>
  /\ Cardinality(DOMAIN nodes) = 4

\* C9 witness: minimal_parse given as argument of
\* process_document_with_options
C9_WitnessOption ==
  /\ pc = "built"
  /\ call.minimal_parse = Some(TRUE)
  /\ ~ config.minimal_parse
  /\ Cardinality(DOMAIN nodes) = 3

\* C10: when the pipeline has promoted no element to Section, the graph
\* consists of the root and Paragraph nodes only, each at depth 1 and a
\* child of the root.
C10_NoSectionAllDepthOne ==
  (pc = "built" /\ \A k \in DOMAIN elements : elements[k].element_type # "Section") =>
    \A id \in DOMAIN nodes \ {RootId} :
      /\ nodes[id].node_type = "Paragraph"
      /\ nodes[id].depth = 1
      /\ nodes[id].parent = RootId

\* C12: two runs on the same input and configuration give the same graph
\* apart from node ids, whatever the iteration order of the hash maps: every
\* analysis the tallies of the document allow leads SectionDetection to the
\* graph that was built.
C12_SameGraphForEveryMapOrder ==
  /\ pc = "built"
  /\ engine.rule_timings # <<>>
  /\ Last(engine.rule_timings) = "SectionDetection"
  => \A a \in Analyses(text_elements, StyleData) :
       LET r == SectionDetectionApply(source, text_elements, a, config)
       IN  ~ r.panicked => BuildGraph(r.elements).nodes = nodes

\* the promotion criteria of the section rules for a text element
HeaderByTypography(text_element, an, sh) ==
  LET font_size == text_element.style_info.font_size
      potential == an.font_size_analysis.potential_header_sizes
      is_bold == IsBold(text_element.style_info)
      text_length == Len(Trim(text_element.text))
  IN  /\ font_size >= sh.min_header_size
      /\ \/ font_size \in potential
         \/ font_size > an.font_size_analysis.body_text_size
         \/ IF sh.bold_size_strict
              THEN /\ sh.use_bold_indicator
                   /\ is_bold
                   /\ font_size > an.document_analysis.most_common_font_size
              ELSE sh.use_bold_indicator /\ is_bold
      /\ text_length >= 3
      /\ text_length >= 8 \/ is_bold \/ font_size \in potential

\* C20: SectionDetection promotes an element to Section if and only if its
\* font size is at least min_header_size, its size is a potential header
\* size or larger than the body size or it is bold under the bold mode, and
\* its trimmed text has a meaningful length.
C20_PromotedIffTypography ==
  /\ pc = "rules"
  /\ engine.rule_timings # <<>>
  /\ Last(engine.rule_timings) = "SectionDetection"
  /\ source # <<>>
  => \A i \in DOMAIN elements :
       (elements[i].element_type = "Section")
         <=> HeaderByTypography(text_elements[elements[i].position + 1],
                                analysis[1], config.section_and_hierarchy)

\* the entries of apply_rule_by_name that hand the elements through: a
\* disabled entry, Validation, a stubbed pass, a name that matches no pass
PassThroughEntry(rule) ==
  \/ ~ rule.enabled
  \/ rule.name = "Validation"
  \/ rule.name \in StubbedRules
  \/ rule.name \notin KnownRules

\* the names of the enabled entries among the first n of the pipeline
EnabledNames(rules, n) ==
  LET enabled == SelectSeq(SubSeq(rules, 1, n), LAMBDA rule : rule.enabled)
  IN  [ k \in DOMAIN enabled |-> enabled[k].name ]

\* C21: a pipeline entry that is disabled, unknown, Validation or a stubbed
\* pass leaves the element sequence unchanged and does not fail the run, and
\* the loop moves on to the next entry; the passes run in the order of the
\* configuration; and once the loop has run through a pipeline made only of
\* such entries (the empty pipeline included), the elements are exactly the
\* base conversion of the text elements.
C21_PassThroughEntries ==
  [][ /\ (AtRule /\ PassThroughEntry(CurrentRule)) =>
           /\ elements' = elements
           /\ pc' = "rules"
           /\ call'.rule_index = call.rule_index + 1
      /\ pc' = "rules" =>
           engine'.rule_timings =
             EnabledNames(config'.pipeline.rules, call'.rule_index - 1)
      /\ ( /\ pc' = "rules"
           /\ call'.rule_index > Len(config'.pipeline.rules)
           /\ \A k \in DOMAIN config'.pipeline.rules :
                PassThroughEntry(config'.pipeline.rules[k]) ) =>
           elements' = ConvertTextElementsToParsed(text_elements') ]_vars

\* C21 witness: the loop has run through the pipeline of a disabled entry
\* and two stubbed passes on a document that converts to two elements
C21_Witness ==
  /\ pc = "rules"
  /\ call.rule_index > Len(config.pipeline.rules)
  /\ config.pipeline.rules =
       << RuleConfig("SectionDetection", FALSE),
          RuleConfig("ListDetection", TRUE),
          RuleConfig("SizeEnforcer", TRUE) >>
  /\ engine.rule_timings = << "ListDetection", "SizeEnforcer" >>
  /\ Len(elements) = 2
  /\ Len(text_elements) = 3

\* C21 witness: the default pipeline, an unknown name and Validation
C21_WitnessDefault ==
  /\ pc = "rules"
  /\ call.rule_index > Len(config.pipeline.rules)
  /\ config.pipeline.rules = DefaultPipeline
  /\ engine.rule_timings = << "SpatialClustering+StyleAnalysis", "Validation" >>
  /\ Len(elements) = 3

\* ------------------------------------------------------------------------
\* Font analysis on documents of up to MaxFontElems spans
\* (RuleEngine::analyze_font_sizes as the processor calls it)
\* ------------------------------------------------------------------------
MaxFontElems == 7

\* the documents: every span carries one of the font classes
FontInputs ==
  UNION { { [ i \in 1..n |-> TextElement(i - 1, << BodyText, classes[i] >>) ] :
              classes \in [ 1..n -> DOMAIN StyleData ] } : n \in 0..MaxFontElems }

FontsInit ==
  /\ LaterIdle
  /\ pc = "extracted"
  /\ text_elements \in FontInputs
  /\ config = NoConfig
  /\ call = NoCall
  /\ engine = NewRuleEngine
  /\ analysis = Nothing
  /\ elements = <<>>
  /\ source = <<>>
  /\ nodes = NewGraph.nodes
  /\ root_node = NewGraph.root
  /\ node_stack = NewGraph.stack
  /\ built = <<>>
  /\ sorted = <<>>

\* the processor computes the analyses of the extracted text elements
AnalyzeFonts ==
  /\ UNCHANGED laterVars
  /\ pc = "extracted"
  /\ \E a \in Analyses(text_elements, StyleData) : analysis' = Some(a)
  /\ pc' = "analyzed"
  /\ UNCHANGED <<graphVars, ruleVars, text_elements, engine, call>>

FontsNext == AnalyzeFonts

SpecFonts == FontsInit /\ [][FontsNext]_vars

\* the number of text elements set in the font size
SizeCount(tes, size) ==
  Cardinality({ i \in DOMAIN tes : tes[i].style_info.font_size = size })

\* C26: body_text_size is a font size with the highest element count, and
\* potential_header_sizes holds exactly the sizes larger than body_text_size
\* whose count is less than half the count of the body size.
C26_HeadersBelowHalfOfBody ==
  (pc = "analyzed" /\ text_elements # <<>>) =>
    LET fa == analysis[1].font_size_analysis
        sizes == { text_elements[i].style_info.font_size :
                     i \in DOMAIN text_elements }
        body == fa.body_text_size
    IN  /\ body \in sizes
        /\ \A s \in sizes :
             SizeCount(text_elements, s) <= SizeCount(text_elements, body)
        /\ fa.potential_header_sizes =
             { s \in sizes :
                 /\ s > body
                 /\ 2 * SizeCount(text_elements, s)
                      < SizeCount(text_elements, body) }

\* ------------------------------------------------------------------------
\* Paragraph merging on classified elements
\* (SpatialClusteringRule::apply with paragraph merging alone, the setting
\* of the generic configuration)
\* ------------------------------------------------------------------------
MaxMergeElems == 3

\* the element with reading_order r: its text names it; type, level, font
\* class and paragraph vary
MergeElement(r, kind, key) ==
  [ element_type |-> kind[1], hierarchy_level |-> kind[2],
    text |-> << << "a", "b", "c", "d", "e" >>[r + 1] >>,
    style_info |-> StyleData[kind[3]], position |-> r,
    bounding_box |-> [ x |-> 0, y |-> 120 * r, width |-> 1000, height |-> 100 ],
    page_number |-> key[1], paragraph_number |-> key[2],
    reading_order |-> r, token_count |-> 1, parts |-> {r} ]

\* type, level and font class as a classifying pass leaves them
MergeKinds ==
  { << "Paragraph", 1, "f1" >>, << "Section", 1, "f2" >>,
    << "Paragraph", 2, "f3" >> }

\* the sequences handed to the pass: reading_order is the extractor's order
\* over the whole document, so pages ascend with it; the pass sorts by
\* reading_order itself, and the sequence may arrive in any order
MergeInputs ==
  UNION { { [ i \in 1..n |-> MergeElement(perm[i], kinds[i], keys[perm[i] + 1]) ] :
              perm \in Orders(0..(n - 1)),
              kinds \in [ 1..n -> MergeKinds ],
              keys \in { ks \in [ 1..n -> ClusterKeys ] :
                           \A i \in 1..(n - 1) : ks[i][1] <= ks[i + 1][1] } }
          : n \in 0..MaxMergeElems }

MergeInit ==
  /\ LaterIdle
  /\ pc = "classified"
  /\ elements \in MergeInputs
  /\ source = <<>>
  /\ config = [ minimal_parse |-> FALSE,
                spatial_clustering |-> DefaultSpatialClustering ]
  /\ text_elements = <<>>
  /\ engine = NewRuleEngine
  /\ analysis = Nothing
  /\ call = NoCall
  /\ nodes = NewGraph.nodes
  /\ root_node = NewGraph.root
  /\ node_stack = NewGraph.stack
  /\ built = <<>>
  /\ sorted = <<>>

\* SpatialClusteringRule::apply: Step 1 runs, Step 2 is disabled
MergeParagraphs ==
  /\ UNCHANGED laterVars
  /\ pc = "classified"
  /\ \E order \in Orders(ParagraphKeys(elements)) :
       elements' = SpatialClusteringApply(elements, config.spatial_clustering,
                                          order)
  /\ source' = elements
  /\ pc' = "merged"
  /\ UNCHANGED <<graphVars, config, driverVars>>

MergeNext == MergeParagraphs

SpecMerge == MergeInit /\ [][MergeNext]_vars

\* the positions in s of the elements of paragraph key
Members(s, key) ==
  { j \in DOMAIN s : << s[j].page_number, s[j].paragraph_number >> = key }

\* the member of S with the least reading_order
Earliest(s, S) ==
  CHOOSE j \in S : \A j2 \in S : s[j].reading_order <= s[j2].reading_order

\* the texts of the members S joined by single spaces in ascending
\* reading_order
RECURSIVE JoinAscending(_, _)
JoinAscending(s, S) ==
  LET first == Earliest(s, S)
  IN  IF S = { first } THEN s[first].text
      ELSE s[first].text \o << SP >> \o JoinAscending(s, S \ { first })

\* C27: paragraph merging returns one element per (page_number,
\* paragraph_number) of its input; the text of each is the texts of its
\* group joined by single spaces in ascending reading order, its style, type
\* and level are those of the earliest element of the group; the output is
\* ordered by page and then by the least reading_order of the groups, and
\* reading_order increases along it.
C27_OneElementPerParagraph ==
  pc = "merged" =>
    /\ Len(elements) = Cardinality(ParagraphKeys(source))
    /\ ParagraphKeys(elements) = ParagraphKeys(source)
    /\ \A i \in DOMAIN elements :
         LET e == elements[i]
             group == Members(source, << e.page_number, e.paragraph_number >>)
             first == source[Earliest(source, group)]
         IN  /\ e.text = JoinAscending(source, group)
             /\ e.style_info = first.style_info
             /\ e.element_type = first.element_type
             /\ e.hierarchy_level = first.hierarchy_level
             /\ e.reading_order = first.reading_order
    /\ \A i, j \in DOMAIN elements :
         i < j =>
           /\ elements[i].page_number <= elements[j].page_number
           /\ elements[i].reading_order < elements[j].reading_order

\* C27 witness: three elements arrive against their reading order, two of
\* them segments of one paragraph with different types, and are merged into
\* two elements
C27_Witness ==
  /\ pc = "merged"
  /\ Len(source) = 3
  /\ Len(elements) = 2
  /\ source[1].reading_order = 2
  /\ source[2].reading_order = 1
  /\ source[3].reading_order = 0
  /\ source[1].paragraph_number = source[3].paragraph_number
  /\ source[1].element_type # source[3].element_type
  /\ elements[1].text = << "a", SP, "c" >>
  /\ elements[1].element_type = source[3].element_type
  /\ elements[2].text = << "b" >>

\* ------------------------------------------------------------------------
\* ListDetectionRule (rules/list_detection.rs; the module is not compiled
\* into the crate, the engine hands ListDetection entries through)
\* Indices are 0-based as in the source; lengths are in points.
\* ------------------------------------------------------------------------
\* defaults of ListDetectionConfig
YTolerance == 15
LastItemBoundaryGap == 80

NL == "\n"

\* is_bullet_item: the trimmed text starts with one of the bullet patterns
\* (each a single character)
IsBulletItem(text, cfg) ==
  LET t == Trim(text)
  IN  t # <<>> /\ t[1] \in cfg.bullet_patterns

\* is_numbered_item with the default patterns, on markers of one character
IsNumberedItem(text, cfg) ==
  LET t == Trim(text)
  IN  /\ Len(t) >= 2
      /\ t[1] \in cfg.numbered_markers
      /\ t[2] \in { ".", ")" }

IsPotentialListItem(text, cfg) ==
  IsBulletItem(text, cfg) \/ IsNumberedItem(text, cfg)

\* sequence.end_index when a sequence is closed
CloseSequence(sequence, n, cfg) ==
  [ sequence EXCEPT !.end_index =
      Min(Last(sequence.marker_indices) + cfg.sequence_boundary_extension,
          n - 1) ]

\* find_possible_list_sequences, from element i on
RECURSIVE FindSequencesLoop(_, _, _, _, _)
FindSequencesLoop(elems, cfg, i, sequences, current) ==
  IF i >= Len(elems)
    THEN IF current = Nothing THEN sequences
         ELSE Append(sequences, CloseSequence(current[1], Len(elems), cfg))
  ELSE IF ~ IsPotentialListItem(elems[i + 1].text, cfg)
    THEN FindSequencesLoop(elems, cfg, i + 1, sequences, current)
  ELSE LET fresh == Some([ start_index |-> i, end_index |-> i,
                           marker_indices |-> << i >> ])
       IN  IF current = Nothing
             THEN FindSequencesLoop(elems, cfg, i + 1, sequences, fresh)
           ELSE IF i - Last(current[1].marker_indices)
                     <= cfg.sequence_lookahead_elements
             THEN FindSequencesLoop(elems, cfg, i + 1, sequences,
                    Some([ current[1] EXCEPT
                             !.marker_indices = Append(@, i) ]))
             ELSE FindSequencesLoop(elems, cfg, i + 1,
                    Append(sequences,
                           CloseSequence(current[1], Len(elems), cfg)),
                    fresh)

FindPossibleListSequences(elems, cfg) ==
  FindSequencesLoop(elems, cfg, 0, <<>>, Nothing)

\* are_on_same_horizontal_line (every element of the model has a box)
AreOnSameHorizontalLine(elem1, elem2, cfg) ==
  Abs(elem1.bounding_box.y - elem2.bounding_box.y) <= cfg.y_tolerance

\* find_last_item_boundary, the loop from candidate i on
RECURSIVE LastItemBoundaryLoop(_, _, _, _, _, _)
LastItemBoundaryLoop(elems, marker_index, sequence_end, cfg, i, last_valid) ==
  IF i > sequence_end \/ i >= Len(elems) THEN last_valid
  ELSE LET marker == elems[marker_index + 1]
           candidate == elems[i + 1]
           y_gap == Abs(candidate.bounding_box.y
                        - (marker.bounding_box.y + marker.bounding_box.height))
       IN  IF y_gap > cfg.last_item_boundary_gap THEN last_valid
           ELSE IF AreOnSameHorizontalLine(marker, candidate, cfg)
             THEN LastItemBoundaryLoop(elems, marker_index, sequence_end, cfg,
                                       i + 1, i)
             ELSE last_valid

FindLastItemBoundary(elems, marker_index, sequence_end, cfg) ==
  LastItemBoundaryLoop(elems, marker_index, sequence_end, cfg,
                       marker_index + 1, marker_index)

\* collect_content_between_indices, in ascending order
CollectContentBetweenIndices(elems, start_index, end_index, consumed, cfg) ==
  LET wanted == { i \in (start_index + 1)..end_index :
                    /\ i < Len(elems)
                    /\ i \notin consumed
                    /\ ~ IsPotentialListItem(elems[i + 1].text, cfg) }
      RECURSIVE Ascending(_)
      Ascending(S) ==
        IF S = {} THEN <<>>
        ELSE LET least == CHOOSE i \in S : \A j \in S : i <= j
             IN  << least >> \o Ascending(S \ { least })
  IN  Ascending(wanted)

\* create_list_item: the texts of marker and content joined by spaces, the
\* box around them all (parts records the elements that went in)
RECURSIVE CombineContent(_, _, _)
CombineContent(item, elems, content_indices) ==
  IF content_indices = <<>> THEN item
  ELSE LET content == elems[Head(content_indices) + 1]
           content_text == Trim(content.text)
           text == IF content_text = <<>> THEN item.text
                   ELSE IF item.text = <<>> THEN content_text
                   ELSE item.text \o << SP >> \o content_text
       IN  CombineContent(
             [ item EXCEPT
                 !.text = text,
                 !.bounding_box = MergeBoundingBoxes(@, content.bounding_box),
                 !.parts = @ \cup content.parts ],
             elems, Tail(content_indices))

CreateListItem(elems, marker_index, content_indices) ==
  LET marker == elems[marker_index + 1]
  IN  CombineContent(
        [ marker EXCEPT !.element_type = "ListItem",
                        !.text = Trim(marker.text) ],
        elems, content_indices)

\* is_marker_only_list_item
IsMarkerOnlyListItem(list_item, cfg) ==
  LET t == Trim(list_item.text)
  IN  \/ Len(t) = 1 /\ t[1] \in cfg.bullet_patterns
      \/ IsNumberedItem(t, cfg) /\ Len(t) <= 4

\* try_merge_with_adjacent_content, the loop from next_idx on: the merged
\* item and the consumed indices, or Nothing
RECURSIVE TryMergeLoop(_, _, _, _, _)
TryMergeLoop(elems, next_idx, consumed, list_item, cfg) ==
  IF next_idx >= Len(elems) THEN Nothing
  ELSE IF next_idx \in consumed
    THEN TryMergeLoop(elems, next_idx + 1, consumed, list_item, cfg)
  ELSE LET next_element == elems[next_idx + 1]
       IN  IF IsPotentialListItem(next_element.text, cfg) THEN Nothing
           ELSE IF AreOnSameHorizontalLine(list_item, next_element, cfg)
             THEN Some([ item |->
                           [ list_item EXCEPT
                               !.text = Trim(list_item.text) \o << SP >>
                                          \o Trim(next_element.text),
                               !.bounding_box =
                                  MergeBoundingBoxes(@, next_element.bounding_box),
                               !.parts = @ \cup next_element.parts ],
                         consumed |-> consumed \cup { next_idx } ])
             ELSE Nothing

\* process_list_sequence, from the marker at marker_idx (1-based here) on
RECURSIVE ProcessMarkersLoop(_, _, _, _, _, _)
ProcessMarkersLoop(elems, sequence, cfg, marker_idx, result, consumed) ==
  IF marker_idx > Len(sequence.marker_indices) THEN result
  ELSE LET global_marker_index == sequence.marker_indices[marker_idx]
       IN  IF global_marker_index \in consumed
             THEN ProcessMarkersLoop(elems, sequence, cfg, marker_idx + 1,
                                     result, consumed)
           ELSE
       LET content_end_index ==
             IF marker_idx < Len(sequence.marker_indices)
               THEN sequence.marker_indices[marker_idx + 1]
               ELSE FindLastItemBoundary(elems, global_marker_index,
                                         sequence.end_index, cfg)
           content_indices ==
             CollectContentBetweenIndices(elems, global_marker_index,
                                          content_end_index, consumed, cfg)
           consumed2 == consumed \cup { global_marker_index }
                          \cup { content_indices[k] : k \in DOMAIN content_indices }
           list_item == CreateListItem(elems, global_marker_index,
                                       content_indices)
           merged == IF IsMarkerOnlyListItem(list_item, cfg)
                       THEN TryMergeLoop(elems, global_marker_index + 1,
                                         consumed2, list_item, cfg)
                       ELSE Nothing
       IN  IF merged = Nothing
             THEN ProcessMarkersLoop(elems, sequence, cfg, marker_idx + 1,
                                     Append(result, list_item), consumed2)
             ELSE ProcessMarkersLoop(elems, sequence, cfg, marker_idx + 1,
                                     Append(result, merged[1].item),
                                     merged[1].consumed)

ProcessListSequence(elems, sequence, cfg) ==
  ProcessMarkersLoop(elems, sequence, cfg, 1, <<>>, {})

\* ListValidator::validate_list for the markers of the model: a bullet
\* list of plain words passes every rule but the minimum size
ValidateList(list_items, cfg) ==
  \/ ~ cfg.validation.enabled
  \/ cfg.validation.minimum_size_check => Len(list_items) > 1

\* create_list_container: the texts of the items joined by newlines, the
\* other fields from the first item
RECURSIVE JoinItems(_, _)
JoinItems(container, items) ==
  IF items = <<>> THEN container
  ELSE JoinItems(
         [ container EXCEPT
             !.text = @ \o << NL >> \o Head(items).text,
             !.bounding_box = MergeBoundingBoxes(@, Head(items).bounding_box),
             !.parts = @ \cup Head(items).parts ],
         Tail(items))

CreateListContainer(list_items) ==
  JoinItems([ Head(list_items) EXCEPT !.element_type = "List" ],
            Tail(list_items))

\* finalize_list_group with preserve_list_items = false
FinalizeListGroup(list_items, cfg) ==
  IF cfg.create_list_containers
    THEN << CreateListContainer(list_items) >>
    ELSE list_items

\* preserve_element_order, from the range at the head of ranges on
RECURSIVE PreserveLoop(_, _, _, _, _, _)
PreserveLoop(original, processed, ranges, result, original_idx, processed_idx) ==
  IF ranges = <<>>
    THEN result \o SubSeq(original, original_idx + 1, Len(original))
    ELSE LET range_start == Head(ranges)[1]
             range_end == Head(ranges)[2]
             before == IF original_idx < range_start
                         THEN SubSeq(original, original_idx + 1, range_start)
                         ELSE <<>>
             spliced == IF processed_idx < Len(processed)
                          THEN << processed[processed_idx + 1] >>
                          ELSE <<>>
         IN  PreserveLoop(original, processed, Tail(ranges),
                          result \o before \o spliced,
                          range_end + 1,
                          IF processed_idx < Len(processed)
                            THEN processed_idx + 1 ELSE processed_idx)

PreserveElementOrder(original, processed, ranges) ==
  PreserveLoop(original, processed, ranges, <<>>, 0, 0)

\* detect_and_group_lists, PHASE 2 from the sequence at the head on
RECURSIVE GroupSequencesLoop(_, _, _, _, _)
GroupSequencesLoop(elems, sequences, cfg, processed, ranges) ==
  IF sequences = <<>> THEN [ processed |-> processed, ranges |-> ranges ]
  ELSE LET sequence == Head(sequences)
           list_items == ProcessListSequence(elems, sequence, cfg)
       IN  IF list_items # <<>> /\ ValidateList(list_items, cfg)
             THEN GroupSequencesLoop(elems, Tail(sequences), cfg,
                    processed \o FinalizeListGroup(list_items, cfg),
                    Append(ranges,
                           << sequence.start_index,
                              Min(sequence.end_index, Len(elems) - 1) >>))
             ELSE GroupSequencesLoop(elems, Tail(sequences), cfg,
                                     processed, ranges)

DetectAndGroupLists(elems, cfg) ==
  LET sequences == FindPossibleListSequences(elems, cfg)
  IN  IF sequences = <<>> THEN elems
      ELSE LET g == GroupSequencesLoop(elems, sequences, cfg, <<>>, <<>>)
           IN  PreserveElementOrder(elems, g.processed, g.ranges)

\* ListDetectionRule::apply
ListDetectionApply(elems, cfg) ==
  IF ~ cfg.enabled THEN elems ELSE DetectAndGroupLists(elems, cfg)

\* ------------------------------------------------------------------------
\* List detection on documents of up to MaxListElems elements
\* ------------------------------------------------------------------------
MaxListElems == 4

\* element r of a document: a bullet with its text, a bullet alone, or a
\* plain run of text, at height y of page 1
ListElement(r, shape, y) ==
  LET letter == << "a", "b", "c", "d", "e" >>[r + 1]
  IN  [ element_type |-> "Paragraph",
        text |-> CASE shape = "item" -> << "*", SP, letter >>
                   [] shape = "marker" -> << "*" >>
                   [] OTHER -> << letter >>,
        hierarchy_level |-> 1, position |-> r,
        style_info |-> StyleData["f1"],
        bounding_box |-> [ x |-> 0, y |-> y, width |-> 100, height |-> 10 ],
        page_number |-> 1, parts |-> { r } ]

\* heights: the same line, the next line, and a line past the boundary gap
ListHeights == { 0, 20, 120 }

ListInputs ==
  UNION { { [ r \in 1..n |-> ListElement(r - 1, shapes[r], ys[r]) ] :
              shapes \in [ 1..n -> { "item", "marker", "content" } ],
              ys \in { f \in [ 1..n -> ListHeights ] :
                         \A r \in 1..(n - 1) : f[r] <= f[r + 1] } } :
          n \in 1..MaxListElems }

\* ListDetectionConfig: the defaults, with the window and the extension also
\* at small values
ListDetectionConfigs ==
  { [ enabled |-> enabled,
      bullet_patterns |-> { "*", "-" },
      numbered_markers |-> { "1", "2", "3" },
      sequence_lookahead_elements |-> lookahead,
      sequence_boundary_extension |-> extension,
      y_tolerance |-> YTolerance,
      last_item_boundary_gap |-> LastItemBoundaryGap,
      create_list_containers |-> containers,
      preserve_list_items |-> FALSE,
      validation |-> [ enabled |-> TRUE, minimum_size_check |-> TRUE ] ] :
    enabled \in BOOLEAN, lookahead \in { 1, 10 }, extension \in { 0, 3 },
    containers \in BOOLEAN }

ListInit ==
  /\ LaterIdle
  /\ pc = "classified"
  /\ elements \in ListInputs
  /\ source = <<>>
  /\ config \in { [ minimal_parse |-> FALSE, list_detection |-> c ] :
                    c \in ListDetectionConfigs }
  /\ text_elements = <<>>
  /\ engine = NewRuleEngine
  /\ analysis = Nothing
  /\ call = NoCall
  /\ nodes = NewGraph.nodes
  /\ root_node = NewGraph.root
  /\ node_stack = NewGraph.stack
  /\ built = <<>>
  /\ sorted = <<>>

\* ListDetectionRule::apply on the classified elements
DetectLists ==
  /\ pc = "classified"
  /\ elements' = ListDetectionApply(elements, config.list_detection)
  /\ source' = elements
  /\ pc' = "listed"
  /\ UNCHANGED <<graphVars, config, driverVars, laterVars>>

ListNext == DetectLists

SpecLists == ListInit /\ [][ListNext]_vars

LeastPart(e) == CHOOSE i \in e.parts : \A j \in e.parts : i <= j

\* C29: list detection preserves order and content: every input element is
\* in exactly one output element (itself, or the one List/ListItem that
\* holds its text), an output that is no List/ListItem is its input element
\* unchanged, and the outputs stand in the order of the inputs they begin
\* with, so nothing is dropped or duplicated.
C29_ListsPreserveElements ==
  pc = "listed" =>
    /\ \A i \in 0..(Len(source) - 1) :
         Cardinality({ k \in DOMAIN elements : i \in elements[k].parts }) = 1
    /\ \A k \in DOMAIN elements :
         elements[k].element_type \notin { "List", "ListItem" } =>
           /\ Cardinality(elements[k].parts) = 1
           /\ elements[k] = source[LeastPart(elements[k]) + 1]
    /\ \A k, l \in DOMAIN elements :
         k < l => LeastPart(elements[k]) < LeastPart(elements[l])

\* ------------------------------------------------------------------------
\* The hierarchy context over a sequence of classified elements
\* (rules/section_detection.rs, HierarchyContext)
\* ------------------------------------------------------------------------
MaxSections == 6
MaxConfigLevel == 3

\* font sizes of the headers, in hundredths of a point; 1200 and 1205 are
\* equal within the tolerance
HeaderFontSizes == { 1000, 1200, 1205, 1600 }

\* SectionAndHierarchyConfig values; nothing validates the two levels
HierarchyConfigs ==
  [ starting_section_level : 1..MaxConfigLevel,
    max_depth : 1..MaxConfigLevel,
    enforce_max_depth : BOOLEAN,
    font_size_tolerance : { FontSizeTolerance } ]

\* the element the loop pushes for a classified text element
ClassifiedElement(element_type, font_size, level, position) ==
  [ element_type |-> element_type, hierarchy_level |-> level,
    position |-> position, style_info |-> [ font_size |-> font_size ] ]

HierarchyInit ==
  /\ pc = "sections"
  /\ storage = NoStorage
  /\ request = Nothing
  /\ response = Nothing
  /\ stage_log = <<>>
  /\ served = 0
  /\ procs = <<>>
  /\ document_info = NoDocumentInfo
  /\ output = Nothing
  /\ xhtml = <<>>
  /\ hierarchy_context = NewHierarchyContext
  /\ \E sh \in HierarchyConfigs : config = [ section_and_hierarchy |-> sh ]
  /\ elements = <<>>
  /\ source = <<>>
  /\ text_elements = <<>>
  /\ engine = NewRuleEngine
  /\ analysis = Nothing
  /\ call = NoCall
  /\ nodes = NewGraph.nodes
  /\ root_node = NewGraph.root
  /\ node_stack = NewGraph.stack
  /\ built = <<>>
  /\ sorted = <<>>

\* an element classified as a header: update_for_section gives its level
SectionElement ==
  /\ pc = "sections"
  /\ Len(elements) < MaxSections
  /\ \E font_size \in HeaderFontSizes :
       LET u == UpdateForSection(hierarchy_context, font_size,
                                 config.section_and_hierarchy)
       IN  /\ hierarchy_context' = u.ctx
           /\ IF u.ctx.panicked
                THEN pc' = "failed" /\ UNCHANGED elements
                ELSE /\ elements' = Append(elements,
                          ClassifiedElement("Section", font_size, u.level,
                                            Len(elements)))
                     /\ UNCHANGED pc
  /\ UNCHANGED <<graphVars, source, config, driverVars, cacheVars, procs, serialVars, xhtml>>

\* an element that is no header: get_content_level gives its level
ContentElement ==
  /\ pc = "sections"
  /\ Len(elements) < MaxSections
  /\ \E font_size \in HeaderFontSizes :
       elements' = Append(elements,
         ClassifiedElement("Paragraph", font_size,
                           GetContentLevel(hierarchy_context), Len(elements)))
  /\ UNCHANGED <<pc, hierarchy_context, graphVars, source, config, driverVars,
               cacheVars, procs, serialVars, xhtml>>

HierarchyNext == SectionElement \/ ContentElement

SpecHierarchy == HierarchyInit /\ [][HierarchyNext]_vars

LaterSectionStep ==
  /\ pc = "sections"
  /\ pc' = "sections"
  /\ Len(elements') = Len(elements) + 1
  /\ Last(elements').element_type = "Section"
  /\ hierarchy_context.previous_section_font_size # None

PrevFontSize == hierarchy_context.previous_section_font_size
NewFontSize == hierarchy_context'.previous_section_font_size
Tolerance == config.section_and_hierarchy.font_size_tolerance

\* the step takes the branch for a font larger than the previous one
SteppedBackUp ==
  /\ LaterSectionStep
  /\ NewFontSize > PrevFontSize
  /\ ~ (Abs(NewFontSize - PrevFontSize) < Tolerance)

\* the slots before the step whose size is within the tolerance of the new
\* size, and those whose size is smaller than the new size
SimilarSlots ==
  { k \in DOMAIN hierarchy_context.level_font_sizes :
      Abs(NewFontSize - hierarchy_context.level_font_sizes[k]) < Tolerance }
SmallerSlots ==
  { k \in DOMAIN hierarchy_context.level_font_sizes :
      NewFontSize > hierarchy_context.level_font_sizes[k] }

Deepest(S) == CHOOSE k \in S : \A k2 \in S : k2 <= k
Shallowest(S) == CHOOSE k \in S : \A k2 \in S : k <= k2

\* C22: a section whose font size is within font_size_tolerance of the
\* previous section's size, slightly larger or slightly smaller, receives
\* the level of the previous section.
C22_WithinToleranceSameLevel ==
  [][ (LaterSectionStep /\ Abs(NewFontSize - PrevFontSize) < Tolerance) =>
        /\ hierarchy_context'.current_level = hierarchy_context.current_level
        /\ Last(elements').hierarchy_level = hierarchy_context.current_level
    ]_vars

\* C23: a section with a font size larger than the previous section's
\* settles at the deepest existing slot whose size is within the tolerance
\* of the new size or, if there is none, at the deepest slot whose size is
\* smaller than the new size, and overwrites the size of that slot.
C23_SettlesAtDeepestSlot ==
  [][ SteppedBackUp =>
        /\ SimilarSlots # {} =>
             hierarchy_context'.current_level = Deepest(SimilarSlots)
        /\ (SimilarSlots = {} /\ SmallerSlots # {}) =>
             hierarchy_context'.current_level = Deepest(SmallerSlots)
        /\ hierarchy_context'.level_font_sizes[hierarchy_context'.current_level]
             = NewFontSize
    ]_vars

\* C23 as it holds: the section settles at the shallowest slot whose size is
\* within the tolerance of the new size or, if there is none, at the
\* shallowest slot whose size is smaller than the new size (at level 1 if no
\* slot is either), and overwrites the size of that slot only.
C23_SettlesAtShallowestSlot ==
  [][ SteppedBackUp =>
        LET level == hierarchy_context'.current_level
        IN  /\ SimilarSlots # {} => level = Shallowest(SimilarSlots)
            /\ (SimilarSlots = {} /\ SmallerSlots # {}) =>
                 level = Shallowest(SmallerSlots)
            /\ (SimilarSlots = {} /\ SmallerSlots = {}) => level = 1
            /\ Last(elements').hierarchy_level = level
            /\ level \in DOMAIN hierarchy_context.level_font_sizes
            /\ hierarchy_context'.level_font_sizes =
                 [ hierarchy_context.level_font_sizes EXCEPT ![level] = NewFontSize ]
    ]_vars

\* C23 witness: a section larger than the previous one has settled at level
\* 1 although a deeper slot is within the tolerance of its size as well
C23_Witness ==
  /\ pc = "sections"
  /\ Len(elements) = 4
  /\ \A i \in 1..4 : elements[i].element_type = "Section"
  /\ elements[1].style_info.font_size = 1205
  /\ elements[2].style_info.font_size = 1200
  /\ elements[3].style_info.font_size = 1000
  /\ elements[4].style_info.font_size = 1200
  /\ elements[3].hierarchy_level = 3
  /\ elements[4].hierarchy_level = 1
  /\ hierarchy_context.level_font_sizes = << 1200, 1200, 1000 >>

\* C24: a section whose font size is larger than the previous section's by
\* more than the tolerance is never assigned a level deeper than the level
\* of the previous section.
C24_LargerNeverDeeper ==
  [][ (LaterSectionStep /\ NewFontSize - PrevFontSize > Tolerance) =>
        /\ hierarchy_context'.current_level <= hierarchy_context.current_level
        /\ Last(elements').hierarchy_level <= hierarchy_context.current_level
    ]_vars

\* C30: with starting_section_level >= 1, update_for_section accesses only
\* slots that exist, so section detection never aborts.
C30_SlotsInRange ==
  config.section_and_hierarchy.starting_section_level >= 1 =>
    /\ pc # "failed"
    /\ ~ hierarchy_context.panicked
    /\ hierarchy_context.previous_section_font_size # None =>
         hierarchy_context.current_level
           \in DOMAIN hierarchy_context.level_font_sizes

\* ------------------------------------------------------------------------
\* The graph cache: storage.rs, cache.rs and
\* DocumentProcessor::process_document_with_config
\* ------------------------------------------------------------------------
\* the length of the chunks calculate_pdf_hash reads (1024 in the source),
\* scaled to the PDF lengths of the model
ChunkSize == 1
MaxRequests == 3

\* PDFs up to the first length at which the two chunks leave a byte out
MaxPdfLen == 2 * ChunkSize + 1

\* a SHA-256 digest, taken as free of collisions: it stands for the bytes
\* the hasher was fed
Sha256(input) == << "sha256", input >>

\* calculate_pdf_hash: the length, the first chunk and, for a file longer
\* than one chunk, the last chunk
CalculatePdfHash(pdf_bytes) ==
  LET start_end == Min(ChunkSize, Len(pdf_bytes))
      first_chunk == SubSeq(pdf_bytes, 1, start_end)
      last_chunk ==
        IF Len(pdf_bytes) > ChunkSize
          THEN SubSeq(pdf_bytes, Len(pdf_bytes) - ChunkSize + 1, Len(pdf_bytes))
          ELSE <<>>
  IN  Sha256(<< Len(pdf_bytes) >> \o first_chunk \o last_chunk)

\* calculate_config_hash: the digest of the serialized configuration
CalculateConfigHash(cfg) == Sha256(<< cfg >>)

\* GraphCacheKey::new; the field xhtml_hash receives the hash of the PDF
GraphCacheKey(pdf_hash, config_hash) ==
  [ xhtml_hash |-> pdf_hash, config_hash |-> config_hash,
    blazegraph_version |-> "0.1.0", processing_version |-> "1.0.0" ]

\* graph_path: the file named by GraphCacheKey::to_cache_hash
GraphPath(cache_key) ==
  Sha256(<< cache_key.xhtml_hash, cache_key.config_hash,
            cache_key.blazegraph_version, cache_key.processing_version >>)

\* serde_json::to_string_pretty of a GraphCacheValue, as the chunks that
\* reach the file one after the other
ToJsonChunks(cache_value) == << "{", cache_value, "}" >>

\* serde_json::from_str: only a whole document deserializes
FromJsonChunks(content) ==
  IF Len(content) = 3 /\ content[1] = "{" /\ content[3] = "}"
    THEN Some(content[2])
    ELSE Nothing

\* get_graph_output that never finds an entry
GetGraphOutput_AlwaysMiss(store, cache_key) ==
  [ ok |-> TRUE, value |-> Nothing ]

\* get_graph_output of FileStorage and of NoOpStorage: Ok(Some), Ok(None),
\* or Err for a file that does not deserialize
GetGraphOutput(store, cache_key) ==
  IF store.kind = "noop" \/ GraphPath(cache_key) \notin DOMAIN store.files
    THEN [ ok |-> TRUE, value |-> Nothing ]
    ELSE LET parsed == FromJsonChunks(store.files[GraphPath(cache_key)])
         IN  IF parsed = Nothing
               THEN [ ok |-> FALSE, value |-> Nothing ]
               ELSE [ ok |-> TRUE, value |-> parsed ]

\* the bytes of the PDFs: each byte stands for one span of the document
\* the extractor finds (1: a body span, 2: a heading span)
PdfBytes == UNION { [ 1..n -> {1, 2} ] : n \in 0..MaxPdfLen }

\* the preprocessor on the file of the request
ProcessFile(pdf_bytes) ==
  [ i \in 1..Len(pdf_bytes) |->
      TextElement(i - 1, IF pdf_bytes[i] = 1 THEN << BodyText, "f1" >>
                                             ELSE << TitleText, "f2" >>) ]

\* the configurations of the requests: minimal_parse, and the default
\* pipeline, whose passes hand the base conversion through
CacheConfigs ==
  { c \in PipelineConfigs :
      \/ c.minimal_parse /\ c.pipeline.rules = <<>>
      \/ ~ c.minimal_parse /\ c.pipeline.rules = DefaultPipeline }

\* process_with_config_flow for these configurations: the graph of a run
\* that succeeds
FreshGraph(pdf_bytes, cfg) ==
  BuildGraph(ConvertTextElementsToParsed(ProcessFile(pdf_bytes))).nodes

Ok(v) == [ ok |-> TRUE, value |-> v ]
Err(e) == [ ok |-> FALSE, value |-> e ]

CacheInit ==
  /\ pc = "idle"
  /\ \E kind \in { "file", "noop" } : storage = [ kind |-> kind, files |-> <<>> ]
  /\ request = Nothing
  /\ response = Nothing
  /\ stage_log = <<>>
  /\ served = 0
  /\ procs = <<>>
  /\ document_info = NoDocumentInfo
  /\ output = Nothing
  /\ xhtml = <<>>
  /\ hierarchy_context = <<>>
  /\ config = NoConfig
  /\ elements = <<>>
  /\ source = <<>>
  /\ text_elements = <<>>
  /\ engine = NewRuleEngine
  /\ analysis = Nothing
  /\ call = NoCall
  /\ nodes = NewGraph.nodes
  /\ root_node = NewGraph.root
  /\ node_stack = NewGraph.stack
  /\ built = <<>>
  /\ sorted = <<>>

otherVars ==
  <<hierarchy_context, graphVars, ruleVars, driverVars, procs, serialVars,
    xhtml>>

\* process_document_with_config up to the cache key
ProcessDocumentWithConfig ==
  /\ pc = "idle"
  /\ served < MaxRequests
  /\ \E pdf_bytes \in PdfBytes, cfg \in CacheConfigs :
       request' = Some([ pdf_bytes |-> pdf_bytes, config |-> cfg,
                         cache_key |-> GraphCacheKey(CalculatePdfHash(pdf_bytes),
                                                     CalculateConfigHash(cfg)),
                         skip_cache |-> FALSE ])
  /\ response' = Nothing
  /\ stage_log' = <<>>
  /\ served' = served + 1
  /\ pc' = "lookup"
  /\ UNCHANGED <<storage, otherVars>>

\* process_document_with_config_and_profiler up to the cache key: with
\* skip_cache the lookup is left out
ProcessDocumentWithConfigAndProfiler ==
  /\ pc = "idle"
  /\ served < MaxRequests
  /\ \E pdf_bytes \in PdfBytes, cfg \in CacheConfigs, skip_cache \in BOOLEAN :
       /\ request' = Some([ pdf_bytes |-> pdf_bytes, config |-> cfg,
                            cache_key |-> GraphCacheKey(
                                            CalculatePdfHash(pdf_bytes),
                                            CalculateConfigHash(cfg)),
                            skip_cache |-> skip_cache ])
       /\ pc' = IF skip_cache THEN "process" ELSE "lookup"
  /\ response' = Nothing
  /\ stage_log' = <<>>
  /\ served' = served + 1
  /\ UNCHANGED <<storage, otherVars>>

\* self.storage.get_graph_output(&cache_key)?: a hit returns the cached
\* graph, an error is returned to the caller, a miss goes on
CheckGraphCache ==
  /\ pc = "lookup"
  /\ LET found == GetGraphOutput(storage, request[1].cache_key)
     IN  IF ~ found.ok
           THEN /\ response' = Some(Err("deserialize"))
                /\ pc' = "idle"
           ELSE IF found.value # Nothing
             THEN /\ response' = Some(Ok(found.value[1].graph))
                  /\ pc' = "idle"
             ELSE /\ pc' = "process"
                  /\ UNCHANGED response
  /\ UNCHANGED <<storage, request, stage_log, served, otherVars>>

\* variant: the graph is stored whatever skip_cache says
StoresGraph_Always(skip_cache) == TRUE

\* if !skip_cache { ... store_graph_output ... }
StoresGraph(skip_cache) == ~ skip_cache

\* process_with_config_flow(input_path, config)? and its profiled twin: the
\* four stages, any of which may fail
RunConfigFlow ==
  /\ pc = "process"
  /\ \E failed \in { "none", "preprocessor", "classifier", "rule_engine",
                     "graph_builder" } :
       IF failed = "none"
         THEN /\ stage_log' = << "preprocessor", "classifier", "rule_engine",
                                 "graph_builder" >>
              /\ response' = Some(Ok(FreshGraph(request[1].pdf_bytes,
                                                request[1].config)))
              /\ pc' = IF StoresGraph(request[1].skip_cache)
                         THEN "store" ELSE "idle"
         ELSE /\ stage_log' = << failed >>
              /\ response' = Some(Err(failed))
              /\ pc' = "idle"
  /\ UNCHANGED <<storage, request, served, otherVars>>

\* store_graph_output of NoOpStorage, and fs::write of FileStorage up to the
\* creation of the file, which truncates an existing one
OpenGraphFile ==
  /\ pc = "store"
  /\ stage_log' = Append(stage_log, "store_graph_output")
  /\ IF storage.kind = "noop"
       THEN /\ pc' = "idle"
            /\ UNCHANGED storage
       ELSE /\ storage' = [ storage EXCEPT !.files =
                              Insert(@, GraphPath(request[1].cache_key), <<>>) ]
            /\ pc' = "writing"
  /\ UNCHANGED <<request, response, served, otherVars>>

\* fs::write: the next chunk reaches the file; after the last one
\* store_graph_output and the request return
WriteGraphFile ==
  /\ pc = "writing"
  /\ LET path == GraphPath(request[1].cache_key)
         json == ToJsonChunks([ graph |-> response[1].value ])
         written == Len(storage.files[path])
     IN  /\ storage' = [ storage EXCEPT !.files[path] =
                           Append(@, json[written + 1]) ]
         /\ pc' = IF written + 1 = Len(json) THEN "idle" ELSE "writing"
  /\ UNCHANGED <<request, response, stage_log, served, otherVars>>

\* the write fails (disk full) or the process dies while the file is being
\* written: the request ends with what the file holds so far
WriteInterrupted ==
  /\ pc = "writing"
  /\ response' = Some(Err("write"))
  /\ pc' = "idle"
  /\ UNCHANGED <<storage, request, stage_log, served, otherVars>>

CacheNext ==
  \/ ProcessDocumentWithConfig
  \/ ProcessDocumentWithConfigAndProfiler
  \/ CheckGraphCache
  \/ RunConfigFlow
  \/ OpenGraphFile
  \/ WriteGraphFile
  \/ WriteInterrupted

SpecCache == CacheInit /\ [][CacheNext]_vars

\* the request in progress was answered from the cache
AnsweredFromCache ==
  /\ pc = "idle"
  /\ response # Nothing
  /\ response[1].ok
  /\ stage_log = <<>>

\* C13: a request answered from the cache returns the graph a fresh run
\* produces for the PDF bytes and the configuration of that request.
C13_HitEqualsFreshRun ==
  AnsweredFromCache
    => response[1].value = FreshGraph(request[1].pdf_bytes, request[1].config)

\* the file of the key of the request in progress
RequestFile == storage.files[GraphPath(request[1].cache_key)]

\* the store holds a file for the key of the request in progress
KeyPresent ==
  /\ storage.kind = "file"
  /\ GraphPath(request[1].cache_key) \in DOMAIN storage.files

\* C14: when the key of a request is in the store, the request returns the
\* stored graph, runs no stage and writes nothing to the store; with the
\* null store every request goes on to the stages.
C14_HitBypassesStages ==
  [][ pc = "lookup" =>
        /\ KeyPresent /\ FromJsonChunks(RequestFile) # Nothing
             => /\ pc' = "idle"
                /\ response' = Some(Ok(RequestFile[2].graph))
                /\ stage_log' = <<>>
                /\ storage' = storage
        /\ storage.kind = "noop" => pc' = "process" ]_vars

\* a second request was answered from the entry the first one stored
C14_Witness ==
  /\ AnsweredFromCache
  /\ served = 2
  /\ KeyPresent
  /\ response[1].value = RequestFile[2].graph

\* a later request to the null store runs the stages again
C14_WitnessNullStore ==
  /\ storage.kind = "noop"
  /\ served = 2
  /\ pc = "store"

\* C15: a request whose stored entry does not deserialize does not fail: the
\* read counts as a miss and the document is processed afresh.
C15_CorruptEntryIsMiss ==
  [][ /\ pc = "lookup"
      /\ KeyPresent
      /\ FromJsonChunks(RequestFile) = Nothing
      => pc' = "process" ]_vars

\* the four stages of process_with_config_flow have run
StagesRan ==
  /\ Len(stage_log) >= 4
  /\ SubSeq(stage_log, 1, 4)
       = << "preprocessor", "classifier", "rule_engine", "graph_builder" >>

\* C28: the store changes only at the end of a request that ran with
\* skip_cache = false, found no entry for its key and whose stages succeeded,
\* and then only under the key of that request; a request whose stage fails
\* and a request with skip_cache = true leave the store as it was, and a
\* request with skip_cache = true never reads it.
C28_StoreWrittenOnlyAfterMiss ==
  [][ /\ storage' # storage =>
           /\ pc \in { "store", "writing" }
           /\ ~ request[1].skip_cache
           /\ StagesRan
           /\ response # Nothing /\ response[1].ok
           /\ pc = "store" => ~ KeyPresent
           /\ request' = request
           /\ storage'.kind = storage.kind
           /\ DOMAIN storage'.files
                = DOMAIN storage.files \cup { GraphPath(request[1].cache_key) }
           /\ \A path \in DOMAIN storage.files :
                path # GraphPath(request[1].cache_key)
                  => storage'.files[path] = storage.files[path]
      /\ (pc = "process" /\ response' # Nothing /\ ~ response'[1].ok) =>
           storage' = storage /\ pc' = "idle"
      /\ (request # Nothing /\ request[1].skip_cache /\ request' = request) =>
           storage' = storage /\ pc # "lookup" /\ pc' # "lookup"
    ]_vars

\* C28 witness: after a request that stored its graph, a request for
\* another document ran with skip_cache = true, succeeded and left no entry
\* under its key
C28_Witness ==
  /\ pc = "idle"
  /\ served = 2
  /\ request[1].skip_cache
  /\ response # Nothing /\ response[1].ok
  /\ StagesRan
  /\ storage.kind = "file"
  /\ Cardinality(DOMAIN storage.files) = 1
  /\ ~ KeyPresent

\* ------------------------------------------------------------------------
\* Processes sharing the file of one cache key (storage.rs, FileStorage)
\* ------------------------------------------------------------------------
MaxWrites == 2

Writers == { "w1", "w2" }
Reader == "reader"

\* the one key the processes use, and the values the writers store under it
SharedKey == GraphCacheKey(CalculatePdfHash(<< 1 >>), CalculateConfigHash(NoConfig))
SharedValues == { [ graph |-> FreshGraph(<< b >>, NoConfig) ] : b \in {1, 2} }

\* write_all at an offset of the file: what lies before the offset stays,
\* a gap reads as NUL bytes
WriteAt(content, offset, chunk) ==
  [ i \in 1..Max(Len(content), offset + 1) |->
      IF i = offset + 1 THEN chunk
      ELSE IF i <= Len(content) THEN content[i] ELSE "nul" ]

StoreInit ==
  /\ pc = "shared"
  /\ storage = [ kind |-> "file", files |-> <<>> ]
  /\ procs = [ p \in Writers \cup { Reader } |->
                 [ pc |-> "idle", offset |-> 0, value |-> Nothing,
                   read |-> Nothing, writes |-> 0 ] ]
  /\ document_info = NoDocumentInfo
  /\ output = Nothing
  /\ xhtml = <<>>
  /\ request = Nothing
  /\ response = Nothing
  /\ stage_log = <<>>
  /\ served = 0
  /\ hierarchy_context = <<>>
  /\ config = NoConfig
  /\ elements = <<>>
  /\ source = <<>>
  /\ text_elements = <<>>
  /\ engine = NewRuleEngine
  /\ analysis = Nothing
  /\ call = NoCall
  /\ nodes = NewGraph.nodes
  /\ root_node = NewGraph.root
  /\ node_stack = NewGraph.stack
  /\ built = <<>>
  /\ sorted = <<>>

storeRest ==
  <<pc, request, response, stage_log, served, hierarchy_context, graphVars,
    ruleVars, driverVars, serialVars, xhtml>>

\* store_graph_output, fs::write: File::create makes or truncates the file
StoreGraphOutputCreate(w) ==
  /\ procs[w].pc = "idle"
  /\ procs[w].writes < MaxWrites
  /\ \E v \in SharedValues :
       procs' = [ procs EXCEPT ![w] = [ @ EXCEPT !.pc = "writing",
                    !.offset = 0, !.value = Some(v), !.writes = @ + 1 ] ]
  /\ storage' = [ storage EXCEPT !.files = Insert(@, GraphPath(SharedKey), <<>>) ]
  /\ UNCHANGED storeRest

\* store_graph_output, fs::write: write_all sends the next chunk
StoreGraphOutputWrite(w) ==
  /\ procs[w].pc = "writing"
  /\ LET json == ToJsonChunks(procs[w].value[1])
         offset == procs[w].offset
     IN  /\ storage' = [ storage EXCEPT !.files[GraphPath(SharedKey)] =
                           WriteAt(@, offset, json[offset + 1]) ]
         /\ procs' = [ procs EXCEPT ![w] = [ @ EXCEPT
                         !.offset = offset + 1,
                         !.pc = IF offset + 1 = Len(json) THEN "idle"
                                                          ELSE "writing" ] ]
  /\ UNCHANGED storeRest

\* the writer dies inside fs::write
WriterCrash(w) ==
  /\ procs[w].pc = "writing"
  /\ procs' = [ procs EXCEPT ![w] = [ @ EXCEPT !.pc = "crashed" ] ]
  /\ UNCHANGED <<storage, storeRest>>

\* get_graph_output up to fs::read_to_string: what the reader finds
ReadGraphFile ==
  /\ procs' = [ procs EXCEPT ![Reader] = [ @ EXCEPT !.read =
                  IF GraphPath(SharedKey) \in DOMAIN storage.files
                    THEN Some([ exists |-> TRUE,
                                content |-> storage.files[GraphPath(SharedKey)] ])
                    ELSE Some([ exists |-> FALSE, content |-> <<>> ]) ] ]
  /\ UNCHANGED <<storage, storeRest>>

StoreNext ==
  \/ \E w \in Writers : StoreGraphOutputCreate(w)
  \/ \E w \in Writers : StoreGraphOutputWrite(w)
  \/ \E w \in Writers : WriterCrash(w)
  \/ ReadGraphFile

SpecStore == StoreInit /\ [][StoreNext]_vars

\* C16: whatever the interleaving, and wherever a writer dies, a reader of
\* the key finds no entry or a complete entry some writer stored, and at
\* most one writer is inside store_graph_output at a time.
C16_ReaderSeesCompleteOrNone ==
  /\ procs[Reader].read # Nothing /\ procs[Reader].read[1].exists
       => /\ FromJsonChunks(procs[Reader].read[1].content) # Nothing
          /\ FromJsonChunks(procs[Reader].read[1].content)[1] \in SharedValues
  /\ Cardinality({ w \in Writers : procs[w].pc = "writing" }) <= 1

\* ------------------------------------------------------------------------
\* Serializers: graphs/serialization.rs, graphs/graph.rs
\* ------------------------------------------------------------------------
MaxSerialElems == 2

\* the font_size_counts of the DocumentAnalysis handed to
\* build_graph_with_metadata
FontSizeCountMaps ==
  { <<>>, [ k \in { "12.0" } |-> 2 ], [ k \in { "12.0", "16.0" } |-> 1 ] }

\* variant: only the nodes without children are emitted
ToFlatFormat_LeavesOnly(ns, order) ==
  [ format |-> "flat",
    chunks |-> LET leaves == SelectSeq(ToSortedNodes(ns, order),
                                       LAMBDA n : n.children = <<>>)
               IN  [ i \in 1..Len(leaves) |-> leaves[i].text ] ]

\* to_flat_format: the texts of all nodes sorted by text_order
ToFlatFormat(ns, order) ==
  [ format |-> "flat",
    chunks |-> LET by_order == ToSortedNodes(ns, order)
               IN  [ i \in 1..Len(by_order) |-> by_order[i].text ] ]

\* to_sequential_format: one segment per node sorted by text_order
ToSequentialFormat(ns, order) ==
  [ format |-> "sequential",
    segments |-> LET by_order == ToSortedNodes(ns, order)
                 IN  [ i \in 1..Len(by_order) |->
                         [ id |-> i - 1, node_type |-> by_order[i].node_type,
                           text |-> by_order[i].text,
                           tokens |-> by_order[i].token_count ] ] ]

\* serde_json::to_string_pretty of a SortedDocumentGraph: a map-valued
\* field is written entry by entry in the iteration order of its HashMap
ToJson(sorted_graph, map_order) ==
  [ schema_version |-> sorted_graph.schema_version,
    nodes |-> sorted_graph.nodes,
    font_size_counts |->
      [ i \in 1..Len(map_order) |->
          << map_order[i], sorted_graph.font_size_counts[map_order[i]] >> ] ]

\* serde_json::from_str into a SortedDocumentGraph: the entries are
\* inserted into a new HashMap
FromJson(json) ==
  [ schema_version |-> json.schema_version,
    nodes |-> json.nodes,
    font_size_counts |->
      [ k \in { json.font_size_counts[i][1] : i \in DOMAIN json.font_size_counts }
          |-> LET i == CHOOSE j \in DOMAIN json.font_size_counts :
                         json.font_size_counts[j][1] = k
              IN  json.font_size_counts[i][2] ] ]

\* to_sorted_graph with the document_info of the graph
SortedGraph(ns, info, order) ==
  [ schema_version |-> "0.2.0", nodes |-> ToSortedNodes(ns, order),
    font_size_counts |-> info.font_size_counts ]

\* a graph returned by build_graph_with_metadata
SerialInit ==
  /\ pc = "returned"
  /\ \E n \in 0..MaxSerialElems : \E elems \in [ 1..n -> BuildElements ] :
     \E t \in Titles :
       LET g == BuildGraph(elems)
       IN  /\ nodes = g.nodes
           /\ root_node = [ g.root EXCEPT !.title = t ]
           /\ node_stack = g.stack
           /\ built = elems
  /\ \E counts \in FontSizeCountMaps :
       document_info = [ font_size_counts |-> counts ]
  /\ output = Nothing
  /\ sorted = <<>>
  /\ elements = <<>>
  /\ source = <<>>
  /\ config = NoConfig
  /\ text_elements = <<>>
  /\ engine = NewRuleEngine
  /\ analysis = Nothing
  /\ call = NoCall
  /\ hierarchy_context = <<>>
  /\ storage = NoStorage
  /\ request = Nothing
  /\ response = Nothing
  /\ stage_log = <<>>
  /\ served = 0
  /\ procs = <<>>
  /\ xhtml = <<>>

serialRest ==
  <<graphVars, ruleVars, driverVars, hierarchy_context, cacheVars, procs,
    document_info, xhtml>>

\* save_with_format: the document written for the format asked for
SaveWithFormat ==
  /\ pc = "returned"
  /\ \E format \in { "sequential", "flat", "graph" } :
     \E order \in Orders(DOMAIN nodes) :
     \E map_order \in Orders(DOMAIN document_info.font_size_counts) :
       output' = Some(
         CASE format = "sequential" -> ToSequentialFormat(nodes, order)
           [] format = "flat" -> ToFlatFormat(nodes, order)
           [] OTHER -> [ format |-> "graph",
                         json |-> ToJson(SortedGraph(nodes, document_info, order),
                                         map_order),
                         rejson |-> Nothing ])
  /\ pc' = "saved"
  /\ UNCHANGED serialRest

\* a consumer reads the graph document back and writes it again
ReserializeJson ==
  /\ pc = "saved"
  /\ output[1].format = "graph"
  /\ LET reread == FromJson(output[1].json)
     IN  \E map_order \in Orders(DOMAIN reread.font_size_counts) :
           output' = Some([ output[1] EXCEPT
                              !.rejson = Some(ToJson(reread, map_order)) ])
  /\ pc' = "resaved"
  /\ UNCHANGED serialRest

SerialNext == SaveWithFormat \/ ReserializeJson

SpecSerial == SerialInit /\ [][SerialNext]_vars

\* the nodes without children
Leaves == { id \in DOMAIN nodes : nodes[id].children = <<>> }

FlatSaved == pc = "saved" /\ output[1].format = "flat"

\* C17: the flat projection of a graph with k leaf nodes holds exactly k
\* strings.
C17_FlatHasOneStringPerLeaf ==
  FlatSaved => Len(output[1].chunks) = Cardinality(Leaves)

\* C17 as it holds: the flat projection holds one string per node, the
\* Document node first and the others by text_order.
C17_FlatHasOneStringPerNode ==
  FlatSaved =>
    /\ Len(output[1].chunks) = Cardinality(DOMAIN nodes)
    /\ output[1].chunks[1] = nodes[RootId].text
    /\ \A id \in DOMAIN nodes \ { RootId } :
         output[1].chunks[nodes[id].text_order + 2] = nodes[id].text

\* the flat projection of a graph that has a Section with a child
C17_Witness ==
  /\ FlatSaved
  /\ \E id \in DOMAIN nodes \ { RootId } : nodes[id].children # <<>>

\* C18: writing the sorted graph as JSON, reading it back and writing it
\* again gives the first JSON, the entries of the maps in the same order.
C18_RoundTripIdentical ==
  pc = "resaved" => output[1].rejson = Some(output[1].json)

\* ------------------------------------------------------------------------
\* preprocessors/pdf/xhtml_parser.rs: extract_text_elements
\* ------------------------------------------------------------------------
MaxPages == 2
MaxPageSpans == 2

\* the spans of the XHTML: text and bounding box attribute; a bounding box
\* that does not parse is Nothing
XhtmlSpans ==
  [ text : { << "a" >>, << SP, "b" >>, << SP >> },
    bbox : { Nothing } \cup { Some([ x |-> x, y |-> y ]) :
                                x \in { 0, 5 }, y \in { 0, 10 } } ]

\* a page is a sequence of paragraphs, a paragraph a sequence of spans
XhtmlParagraphs == UNION { [ 1..n -> XhtmlSpans ] : n \in 1..MaxPageSpans }
XhtmlPages ==
  { <<>> } \cup { << p >> : p \in XhtmlParagraphs }
    \cup { << p, q >> : p, q \in [ 1..1 -> XhtmlSpans ] }
XhtmlDocuments == UNION { [ 1..n -> XhtmlPages ] : n \in 1..MaxPages }

\* extract_spans_from_paragraph: the elements pushed for one paragraph;
\* found counts the elements of the page pushed before
RECURSIVE ExtractSpansFromParagraph(_, _, _, _)
ExtractSpansFromParagraph(spans, page_number, paragraph_number, found) ==
  IF spans = <<>> THEN <<>>
  ELSE LET span == Head(spans)
           text_content == Trim(span.text)
       IN  IF text_content = <<>> \/ span.bbox = Nothing
             THEN ExtractSpansFromParagraph(Tail(spans), page_number,
                                            paragraph_number, found)
             ELSE << [ text |-> text_content,
                       bounding_box |-> span.bbox[1],
                       page_number |-> page_number,
                       paragraph_number |-> paragraph_number,
                       reading_order |-> 0,
                       pushed |-> found ] >>
                  \o ExtractSpansFromParagraph(Tail(spans), page_number,
                                               paragraph_number, found + 1)

\* the loop over the paragraphs of a page
RECURSIVE ExtractPageElements(_, _, _, _)
ExtractPageElements(paragraphs, page_number, paragraph_number, page_elements) ==
  IF paragraphs = <<>> THEN page_elements
  ELSE ExtractPageElements(
         Tail(paragraphs), page_number, paragraph_number + 1,
         page_elements \o ExtractSpansFromParagraph(
                            Head(paragraphs), page_number, paragraph_number,
                            Len(page_elements)))

\* y.total_cmp(..).then_with(x.total_cmp(..)) is not Greater
PositionLeq(a, b) ==
  \/ a.bounding_box.y < b.bounding_box.y
  \/ a.bounding_box.y = b.bounding_box.y /\ a.bounding_box.x <= b.bounding_box.x

\* sort_unstable_by: the sorted arrangements of the slice; elements that
\* compare equal may come in any order
SortUnstableBy(page_elements) ==
  { [ i \in DOMAIN page_elements |-> page_elements[o[i]] ] :
      o \in { p \in Orders(DOMAIN page_elements) :
                \A i, j \in DOMAIN page_elements :
                  i < j => PositionLeq(page_elements[p[i]], page_elements[p[j]]) } }

\* the global reading order given to the sorted elements of a page
AssignReadingOrder(page_elements, global_reading_order) ==
  [ i \in DOMAIN page_elements |->
      [ page_elements[i] EXCEPT !.reading_order = global_reading_order + i - 1 ] ]

\* extract_text_elements: the loop over the pages; the results the build
\* can produce
RECURSIVE ExtractTextElements(_, _, _, _)
ExtractTextElements(pages, page_number, paragraph_number, extracted) ==
  IF pages = <<>> THEN { extracted }
  ELSE UNION {
         ExtractTextElements(
           Tail(pages), page_number + 1, paragraph_number + Len(Head(pages)),
           extracted \o AssignReadingOrder(sorted_page, Len(extracted))) :
         sorted_page \in SortUnstableBy(
           ExtractPageElements(Head(pages), page_number, paragraph_number, <<>>)) }

ParserInit ==
  /\ pc = "xhtml"
  /\ xhtml \in XhtmlDocuments
  /\ text_elements = <<>>
  /\ engine = NewRuleEngine
  /\ analysis = Nothing
  /\ call = NoCall
  /\ elements = <<>>
  /\ source = <<>>
  /\ config = NoConfig
  /\ nodes = NewGraph.nodes
  /\ root_node = NewGraph.root
  /\ node_stack = NewGraph.stack
  /\ built = <<>>
  /\ sorted = <<>>
  /\ hierarchy_context = <<>>
  /\ storage = NoStorage
  /\ request = Nothing
  /\ response = Nothing
  /\ stage_log = <<>>
  /\ served = 0
  /\ procs = <<>>
  /\ document_info = NoDocumentInfo
  /\ output = Nothing

\* extract_text_elements on the document
ParseXhtml ==
  /\ pc = "xhtml"
  /\ text_elements' \in ExtractTextElements(xhtml, 1, 0, <<>>)
  /\ pc' = "extracted"
  /\ UNCHANGED <<graphVars, ruleVars, engine, analysis, call, hierarchy_context,
                 cacheVars, procs, serialVars, xhtml>>

ParserNext == ParseXhtml

SpecParser == ParserInit /\ [][ParserNext]_vars

\* C19: the text elements come page by page in document order, within a
\* page by y and then x, spans with equal y and x in document order, and
\* the element at output index i has reading_order i.
C19_StableReadingOrder ==
  pc = "extracted" =>
    /\ \A i \in DOMAIN text_elements : text_elements[i].reading_order = i - 1
    /\ \A i, j \in DOMAIN text_elements :
         i < j =>
           /\ text_elements[i].page_number <= text_elements[j].page_number
           /\ text_elements[i].page_number = text_elements[j].page_number
                => /\ PositionLeq(text_elements[i], text_elements[j])
                   /\ PositionLeq(text_elements[j], text_elements[i])
                        => text_elements[i].pushed < text_elements[j].pushed

====
